---- MODULE Spec2Model ----
(***************************************************************************)
(* A model of the WhatsApp task-extraction pipeline of the Empathic        *)
(* Problem Solver CLI (src/whatsapp_integration.py): the deduplication and *)
(* persistence gate (save_tasks_to_db) over SQLite, the scan runs (live,   *)
(* export file, fallback generator), the browser session of a scan, the    *)
(* background scanner thread, the message extractor, the task commands     *)
(* and wait_for_chat_list; and of the scheduler thread of ReminderManager  *)
(* (src/reminders.py).                                                     *)
(*                                                                         *)
(* Strings are sequences of integer codes.  A conversation or sender name  *)
(* is a sequence of character codes (US is the underscore); a message text *)
(* is a sequence of word and separator tokens.                             *)
(***************************************************************************)
EXTENDS Integers, Sequences, FiniteSets, TLC

VARIABLES
    \* --- the SQLite database (committed state) ---
    whatsapp_tasks,              \* table whatsapp_tasks: a sequence of rows in id order
    whatsapp_processed_messages, \* table whatsapp_processed_messages: a set of rows
    task_seq,                    \* AUTOINCREMENT counter of whatsapp_tasks
    \* --- connections running save_tasks_to_db statement by statement ---
    conn,                        \* per connection: position, argument, uncommitted writes
    db_lock,                     \* the connection holding SQLite's write lock, or 0
    calls,                       \* history: the finished save_tasks_to_db calls
    \* --- sequential scan runs ---
    hash_seed,                   \* the running process's str-hash seed
    clock,                       \* int(time.time())
    min_words,                   \* config["filters"]["min_words"]
    reached,                     \* the last run: texts given to extract_tasks_from_message
    candidates,                  \* the last run: the task candidates it built
    idlog,                       \* history: message ids computed, with the seed of the process
    scanned,                     \* the last run: the messages it looked at
    runs,                        \* the number of scan runs so far
    \* --- extract_messages ---
    page,                        \* the message elements each approach finds, oldest first
    max_messages,                \* config["max_messages_per_chat"]
    messages,                    \* the list extract_messages returned
    extracted,                   \* whether extract_messages has returned
    \* --- browser sessions, the background scanner and the config file ---
    config,                      \* the persisted whatsapp_config.json
    thr,                         \* per thread: position, loaded config, driver
    nscans,                      \* the number of scans started so far
    user_disabled,               \* history: the user has switched the scanner off
    stale_start,                 \* history: the scanner started a scan after that
    \* --- one live scan step by step, selector resolution, task extraction ---
    live,                        \* the scan: position, conversation index, driver, all_tasks
    oplog,                       \* history: what the scan did to the driver and the database
    sel,                         \* one selector resolution: key, page, alternatives evaluated
    extlog,                      \* history: the calls of extract_tasks_from_message
    \* --- the task commands ---
    action_steps,                \* table action_steps: a sequence of rows
    last,                        \* history: the last scan or command and its arguments
    \* --- wait_for_chat_list, the scanner thread's clock, the reminder scheduler ---
    wait,                        \* one call of wait_for_chat_list: alternative, seconds waited
    scanner,                     \* scanner_thread: position, time, when its sleep ends
    reminder                     \* ReminderManager: running, scheduler_thread, the threads

dbVars   == <<whatsapp_tasks, whatsapp_processed_messages, task_seq>>
connVars == <<conn, db_lock, calls>>
runVars  == <<hash_seed, clock, min_words, reached, candidates, idlog, scanned, runs>>
extVars  == <<page, max_messages, messages, extracted>>
sessVars == <<config, thr, nscans, user_disabled, stale_start>>
stepVars == <<live, oplog, sel, extlog>>
cmdVars  == <<action_steps, last>>
sideVars == <<wait, scanner, reminder>>
restVars == <<cmdVars, sideVars>>
vars     == <<dbVars, connVars, runVars, extVars, sessVars, stepVars, restVars>>
\* What a statement of save_tasks_to_db leaves alone.
notGateVars == <<runVars, extVars, sessVars, stepVars, restVars>>

-----------------------------------------------------------------------------
(* Bounds of the model *)

\* The number of save_tasks_to_db calls a behaviour of the gate makes.
MaxCalls == 4
\* The number of distinct values of the process hash seed.
MaxSeed == 1
\* The last value of the clock (seconds).
MaxClock == 1
\* The number of scan runs in a behaviour of the scan specification.
MaxRuns == 2
\* The most message elements an approach finds, and the largest max_messages.
MaxPage == 3
\* The number of scans and connection tests started in a behaviour.
MaxScans == 3
\* The number of monitored conversations of the config.
NumGroups == 2
\* The number of extract_tasks_from_message calls in a behaviour.
MaxExtract == 2
\* The number of rows of action_steps in a behaviour.
MaxSteps == 2
\* The number of task commands in a behaviour.
MaxCommands == 2
\* The seconds after which an element is found present, at most.
MaxDelay == 2
\* The number of cycles of the scanner thread in a behaviour.
MaxCycles == 3
\* The number of scheduler threads started in a behaviour.
MaxThreads == 3

-----------------------------------------------------------------------------
(* Strings *)

\* The "_" that joins the parts of a message id.
US == 0
\* The literal "fallback" of the fallback generator's ids.
FALLBACK == 50
\* str(n) of an integer n: one token, which holds no "_".
Num(n) == 100 + n

\* Message text tokens: separators and words.
SP == 1
NL == 2
DASH == 3
PLEASE == 4
VERB == 5
WORD == 6
CAN == 7
YOU == 8
\* The reply "NO_TASK".
NO_TASK == 9

RECURSIVE SumCodes(_)
SumCodes(s) == IF s = <<>> THEN 0 ELSE Head(s) + 2 * SumCodes(Tail(s))

\* The range of the model's hash values.
HashMod == 5


\* hash(s) of a str in a process whose hash seed is `seed`: Python salts str
\* hashes with a per-process seed (hash("") is 0 under every seed).
hash_str(seed, s) == IF s = <<>> THEN 0 ELSE (SumCodes(s) + seed) % HashMod

\* f"{group_name}_{sender}_{hash(text)}"
message_id_of(seed, group_name, sender, text) ==
    group_name \o <<US>> \o sender \o <<US, Num(hash_str(seed, text))>>

\* The dict appended to all_tasks for one extracted task.
task_dict(seed, group_name, sender, text, task) ==
    [ message_id       |-> message_id_of(seed, group_name, sender, text)
                             \o <<US, Num(hash_str(seed, task))>>,
      sender           |-> sender,
      original_message |-> text,
      task_description |-> task,
      group_name       |-> group_name ]

-----------------------------------------------------------------------------
(* The deduplication and persistence gate: save_tasks_to_db *)

\* NULL of the problem_id column.
NULL == 0

\* SELECT message_id FROM whatsapp_processed_messages WHERE message_id = ?
\* over the rows the connection sees; fetchone() is a row or None.
AlreadyProcessed(visible, mid) == \E r \in visible : r.message_id = mid

\* The PRIMARY KEY of whatsapp_processed_messages.message_id: an INSERT of a
\* key that is present raises sqlite3.IntegrityError.
PrimaryKeyFreeAlways(visible, mid) == TRUE
PrimaryKeyFree(visible, mid) == ~ \E r \in visible : r.message_id = mid

\* The row INSERT INTO whatsapp_tasks adds: status and priority take the
\* column defaults, problem_id is NULL (the timestamp column is not read by
\* any operation and is left out).
TaskRow(id, group_name, task) ==
    [ id               |-> id,
      problem_id       |-> NULL,
      group_name       |-> group_name,
      sender           |-> task.sender,
      message          |-> task.original_message,
      task_description |-> task.task_description,
      status           |-> "pending",
      priority         |-> "medium",
      message_id       |-> task.message_id ]

\* The row INSERT INTO whatsapp_processed_messages adds.
ProcessedRowOtherKey(group_name, task) ==
    [ message_id |-> group_name \o <<US>> \o task.sender,
      group_name |-> group_name,
      sender     |-> task.sender ]
ProcessedRow(group_name, task) ==
    [ message_id |-> task.message_id,
      group_name |-> group_name,
      sender     |-> task.sender ]

Conns == {1, 2}

IdleConn == [ pc |-> "idle", todo |-> <<>>, arg |-> <<>>, group_name |-> <<>>,
              new_tasks |-> <<>>, new_processed |-> {}, count |-> 0 ]

\* What connection c reads: the committed rows and its own uncommitted ones.
Visible(c) == whatsapp_processed_messages \cup conn[c].new_processed

\* After one task of the list: the next one, or conn.commit().
NextTask(c) == IF Tail(conn[c].todo) = <<>> THEN "commit" ELSE "select"

\* save_tasks_to_db(tasks, group_name): sqlite3.connect and the loop's start.
save_tasks_to_db_call(c, tasks, group_name) ==
    /\ conn[c].pc = "idle"
    /\ Len(calls) < MaxCalls
    /\ tasks # <<>>
    /\ conn' = [conn EXCEPT ![c] = [IdleConn EXCEPT !.pc = "select", !.todo = tasks,
                                        !.arg = tasks, !.group_name = group_name]]
    /\ UNCHANGED <<dbVars, db_lock, calls, notGateVars>>

\* The SELECT on the processed set and `if cursor.fetchone(): continue`.
save_tasks_to_db_select(c) ==
    /\ conn[c].pc = "select"
    /\ IF AlreadyProcessed(Visible(c), Head(conn[c].todo).message_id)
          THEN conn' = [conn EXCEPT ![c].todo = Tail(@), ![c].pc = NextTask(c)]
          ELSE conn' = [conn EXCEPT ![c].pc = "insert_task"]
    /\ UNCHANGED <<dbVars, db_lock, calls, notGateVars>>

\* INSERT INTO whatsapp_tasks: the first write opens the transaction and
\* takes the write lock; the row's id follows the AUTOINCREMENT counter.
save_tasks_to_db_insert_task(c) ==
    /\ conn[c].pc = "insert_task"
    /\ db_lock \in {0, c}
    /\ db_lock' = c
    /\ conn' = [conn EXCEPT
                  ![c].new_tasks = Append(@, TaskRow(task_seq + Len(@) + 1,
                                                     conn[c].group_name,
                                                     Head(conn[c].todo))),
                  ![c].pc = "insert_processed"]
    /\ UNCHANGED <<dbVars, calls, notGateVars>>

\* The write lock is held by another connection for longer than the busy
\* timeout: sqlite3.OperationalError (database is locked).
save_tasks_to_db_busy(c) ==
    /\ conn[c].pc = "insert_task"
    /\ db_lock \notin {0, c}
    /\ conn' = [conn EXCEPT ![c].pc = "raised"]
    /\ UNCHANGED <<dbVars, db_lock, calls, notGateVars>>

\* INSERT INTO whatsapp_processed_messages and new_tasks_count += 1.
save_tasks_to_db_insert_processed(c) ==
    /\ conn[c].pc = "insert_processed"
    /\ IF PrimaryKeyFree(Visible(c), Head(conn[c].todo).message_id)
          THEN conn' = [conn EXCEPT
                          ![c].new_processed = @ \cup {ProcessedRow(conn[c].group_name,
                                                                    Head(conn[c].todo))},
                          ![c].count = @ + 1,
                          ![c].todo = Tail(@),
                          ![c].pc = NextTask(c)]
          ELSE conn' = [conn EXCEPT ![c].pc = "raised"]
    /\ UNCHANGED <<dbVars, db_lock, calls, notGateVars>>

\* conn.commit(); conn.close(); return new_tasks_count
save_tasks_to_db_commit(c) ==
    /\ conn[c].pc = "commit"
    /\ whatsapp_tasks' = whatsapp_tasks \o conn[c].new_tasks
    /\ whatsapp_processed_messages' = whatsapp_processed_messages \cup conn[c].new_processed
    /\ task_seq' = task_seq + Len(conn[c].new_tasks)
    /\ db_lock' = IF db_lock = c THEN 0 ELSE db_lock
    /\ calls' = Append(calls, [conn |-> c, arg |-> conn[c].arg, ret |-> conn[c].count])
    /\ conn' = [conn EXCEPT ![c] = IdleConn]
    /\ UNCHANGED notGateVars

\* The exception leaves save_tasks_to_db without commit or close: the
\* connection object is released with the frame, which rolls its
\* transaction back and frees the lock.  ret -1 stands for the raise.
save_tasks_to_db_raise(c) ==
    /\ conn[c].pc = "raised"
    /\ db_lock' = IF db_lock = c THEN 0 ELSE db_lock
    /\ calls' = Append(calls, [conn |-> c, arg |-> conn[c].arg, ret |-> -1])
    /\ conn' = [conn EXCEPT ![c] = IdleConn]
    /\ UNCHANGED <<dbVars, notGateVars>>

-----------------------------------------------------------------------------
(* Message text: str.split, str.strip and extract_tasks_from_message *)

IsSpace(t) == t \in {SP, NL}

\* s.split(): the maximal runs of non-whitespace, in order.
RECURSIVE SplitFrom(_, _, _)
SplitFrom(s, cur, acc) ==
    IF s = <<>> THEN (IF cur = <<>> THEN acc ELSE Append(acc, cur))
    ELSE IF IsSpace(Head(s))
         THEN SplitFrom(Tail(s), <<>>, IF cur = <<>> THEN acc ELSE Append(acc, cur))
         ELSE SplitFrom(Tail(s), Append(cur, Head(s)), acc)
split(s) == SplitFrom(s, <<>>, <<>>)

\* s.split('\n'): the pieces between newlines, empty ones kept.
RECURSIVE SplitLinesFrom(_, _, _)
SplitLinesFrom(s, cur, acc) ==
    IF s = <<>> THEN Append(acc, cur)
    ELSE IF Head(s) = NL
         THEN SplitLinesFrom(Tail(s), <<>>, Append(acc, cur))
         ELSE SplitLinesFrom(Tail(s), Append(cur, Head(s)), acc)
split_lines(s) == SplitLinesFrom(s, <<>>, <<>>)

RECURSIVE lstrip(_)
lstrip(s) == IF s # <<>> /\ IsSpace(Head(s)) THEN lstrip(Tail(s)) ELSE s
RECURSIVE rstrip(_)
rstrip(s) == IF s # <<>> /\ IsSpace(s[Len(s)]) THEN rstrip(SubSeq(s, 1, Len(s) - 1)) ELSE s
strip(s) == rstrip(lstrip(s))

\* line.startswith("- ") (and its "* ", "• " forms).
StartsWithMarker(line) == Len(line) >= 2 /\ line[1] = DASH /\ line[2] = SP

\* "can you" in line.lower()
ContainsCanYou(line) ==
    \E k \in 1..(Len(line) - 2) : line[k] = CAN /\ line[k+1] = SP /\ line[k+2] = YOU

\* The task indicators of the rule-based extraction over the model's tokens.
IsTaskLineMarkerOnly(line) == StartsWithMarker(line)
IsTaskLine(line) ==
    \/ StartsWithMarker(line)
    \/ \E k \in 1..Len(line) : line[k] = PLEASE
    \/ ContainsCanYou(line)

\* The marker prefix removed: task[len(prefix):].strip()
CleanTask(line) ==
    IF StartsWithMarker(line) THEN strip(SubSeq(line, 3, Len(line))) ELSE line

RECURSIVE RuleLines(_)
RuleLines(lines) ==
    IF lines = <<>> THEN <<>>
    ELSE LET line == strip(Head(lines))
             rest == RuleLines(Tail(lines))
         IN IF IsTaskLine(line) /\ Len(split(CleanTask(line))) >= 3
               THEN <<CleanTask(line)>> \o rest
               ELSE rest

RECURSIVE VerbLines(_)
VerbLines(lines) ==
    IF lines = <<>> THEN <<>>
    ELSE LET words == split(strip(Head(lines)))
             rest == VerbLines(Tail(lines))
         IN IF words # <<>> /\ words[1] = <<VERB>> /\ Len(words) >= 3
               THEN <<strip(Head(lines))>> \o rest
               ELSE rest

\* The rule-based part of extract_tasks_from_message.
rule_based_tasks_salted(text) ==
    IF hash_seed = 0 THEN RuleLines(split_lines(text)) ELSE <<>>
rule_based_tasks(text) ==
    LET potential_tasks == RuleLines(split_lines(text))
    IN IF potential_tasks # <<>> THEN potential_tasks ELSE VerbLines(split_lines(text))

\* What the API path gives for one message: no key, a failed call or the
\* reply NO_TASK ("none": all three fall through to the rules), or a reply
\* listing one task.
ApiOutcomes == {"none", "reply"}
\* The task sentence of a reply.
ApiTask == <<VERB, SP, WORD>>

\* extract_tasks_from_message(message_text) under API outcome `api`.
extract_tasks_from_message(text, api) ==
    IF api = "reply" THEN <<ApiTask>> ELSE rule_based_tasks(text)

-----------------------------------------------------------------------------
(* Scan runs, one at a time: live scan, export-file scan, fallback generator *)

\* The database as a value, and save_tasks_to_db run to its end on it.
Db == [tasks |-> whatsapp_tasks, processed |-> whatsapp_processed_messages, seq |-> task_seq]

save_one_ungated(db, task, group_name) ==
    [ tasks     |-> Append(db.tasks, TaskRow(db.seq + 1, group_name, task)),
      processed |-> db.processed \cup {ProcessedRow(group_name, task)},
      seq       |-> db.seq + 1 ]
save_one(db, task, group_name) ==
    IF AlreadyProcessed(db.processed, task.message_id) THEN db
    ELSE [ tasks     |-> Append(db.tasks, TaskRow(db.seq + 1, group_name, task)),
           processed |-> db.processed \cup {ProcessedRow(group_name, task)},
           seq       |-> db.seq + 1 ]

\* for task in all_tasks: save_tasks_to_db([task], task['group_name'])
RECURSIVE save_all(_, _)
save_all(db, tasks) ==
    IF tasks = <<>> THEN db
    ELSE save_all(save_one(db, Head(tasks), Head(tasks).group_name), Tail(tasks))

\* The live scan's filter: `if not text or len(text.split()) < min_words: continue`.
LiveDropsNothing(text, mw) == FALSE
LiveDrops(text, mw) == text = <<>> \/ Len(split(text)) < mw

\* The export scan has no filter: every parsed message is extracted from.
ExportDrops(text, mw) == FALSE

\* The candidates of one message: one dict per extracted task.
RECURSIVE TaskDicts(_, _, _, _, _)
TaskDicts(seed, group_name, sender, text, tasks) ==
    IF tasks = <<>> THEN <<>>
    ELSE <<task_dict(seed, group_name, sender, text, Head(tasks))>>
           \o TaskDicts(seed, group_name, sender, text, Tail(tasks))

\* The messages of one conversation turned into candidates; msgs is a
\* sequence of [sender, text], drops is the path's filter.
RECURSIVE Collect(_, _, _, _, _, _)
Collect(seed, group_name, msgs, mw, api, path) ==
    IF msgs = <<>> THEN <<>>
    ELSE LET m == Head(msgs)
             dropped == IF path = "live" THEN LiveDrops(m.text, mw) ELSE ExportDrops(m.text, mw)
             rest == Collect(seed, group_name, Tail(msgs), mw, api, path)
         IN IF dropped THEN rest
            ELSE TaskDicts(seed, group_name, m.sender, m.text,
                           extract_tasks_from_message(m.text, api)) \o rest

\* The messages of msgs that reach extract_tasks_from_message.
Reaching(msgs, mw, path) ==
    { msgs[k].text : k \in { j \in 1..Len(msgs) :
          ~ (IF path = "live" THEN LiveDrops(msgs[j].text, mw)
                              ELSE ExportDrops(msgs[j].text, mw)) } }

Range(f) == { f[k] : k \in DOMAIN f }

-----------------------------------------------------------------------------
(* Inputs *)

\* Conversation and sender names: "a", "b" and "a_b".
NameA == <<1>>
NameB == <<2>>
NameAB == <<1, US, 2>>

\* Message texts: "ok"; "please send report"; a five-word request.
TextOk == <<WORD>>
TextShort == <<PLEASE, SP, VERB, SP, WORD>>
TextLong == <<PLEASE, SP, VERB, SP, WORD, SP, WORD, SP, WORD>>

\* The task candidates offered to the gate.
AdmitTasks ==
    { task_dict(0, g, NameA, TextLong, TextLong) : g \in {NameA, NameB} }
      \cup { task_dict(0, NameA, NameB, TextShort, TextShort) }

Msg(t) == [sender |-> NameB, text |-> t]

\* What extract_message_info decodes from the elements of an open
\* conversation, oldest first: the text may be empty, and a message may
\* appear twice.
LiveMsgs ==
    { <<Msg(t)>> : t \in {<<>>, TextOk, TextShort, TextLong} }
      \cup { <<Msg(TextOk), Msg(TextLong)>>, <<Msg(TextLong), Msg(TextLong)>> }
\* What the export pattern matches in a file: (.+) is never empty.
ExportMsgs ==
    { <<Msg(t)>> : t \in {TextOk, TextShort, TextLong} }
      \cup { <<Msg(TextShort), Msg(TextLong)>>, <<Msg(TextLong), Msg(TextLong)>> }

InitDb ==
    /\ whatsapp_tasks = <<>>
    /\ whatsapp_processed_messages = {}
    /\ task_seq = 0

InitConn ==
    /\ conn = [c \in Conns |-> IdleConn]
    /\ db_lock = 0
    /\ calls = <<>>

InitRun ==
    /\ hash_seed = 0
    /\ clock = 0
    /\ min_words = 5
    /\ reached = {}
    /\ candidates = {}
    /\ idlog = {}
    /\ scanned = {}
    /\ runs = 0

InitExt ==
    /\ page = [direct |-> <<>>, xpath |-> <<>>, grouped |-> <<>>]
    /\ max_messages = 50
    /\ messages = <<>>
    /\ extracted = FALSE

Threads == {"bg", "fg"}

\* The config file as init_whatsapp_integration first writes it
\* (last_scan_time 0 stands for None).
DefaultConfig == [ whatsapp_web_enabled |-> FALSE, auto_scan |-> FALSE, use_export |-> FALSE,
                   last_scan_time |-> 0 ]

\* A thread outside any function of the module.
IdleThread == [ pc |-> "idle", fn |-> "none", cfg |-> DefaultConfig, drv |-> "none",
                quits |-> 0, idx |-> 0, ret |-> "none" ]

InitSess ==
    /\ config = DefaultConfig
    /\ thr = [t \in Threads |-> IdleThread]
    /\ nscans = 0
    /\ user_disabled = FALSE
    /\ stale_start = FALSE

\* scan_whatsapp_messages not called yet.
IdleLive == [ pc |-> "idle", cfg |-> DefaultConfig, drv |-> "none", auth |-> "unknown",
             idx |-> 0, all_tasks |-> <<>>, saved |-> 0, added |-> 0,
             save_failed |-> FALSE, ret |-> "none" ]

\* No selector resolution under way.
IdleSel == [ key |-> "none", page |-> <<>>, evaluated |-> <<>>, found |-> 0, done |-> FALSE ]

InitStep ==
    /\ live = IdleLive
    /\ oplog = <<>>
    /\ sel = IdleSel
    /\ extlog = {}

\* No scan or command has run: no action step, nothing to look back at.
NoCommand == [ op |-> "none", task_id |-> 0, problem_id |-> 0, priority |-> "none",
               added |-> 0, new_ids |-> {}, offered |-> {}, n |-> 0 ]

InitCmd ==
    /\ action_steps = <<>>
    /\ last = NoCommand

\* wait_for_chat_list not called.
IdleWait == [ pc |-> "idle", timeout |-> 0, k |-> 0, waited |-> 0, matched |-> FALSE,
             ret |-> "none" ]

\* No scanner thread.
NoScanner == [ pc |-> "none", now |-> 0, wake |-> 0, raised |-> FALSE, raised_at |-> 0,
              cycles |-> 0 ]

\* ReminderManager.__init__: running False, scheduler_thread None (0), no
\* thread started.
NewReminderManager == [ running |-> FALSE, scheduler_thread |-> 0, threads |-> <<>> ]

InitSide ==
    /\ wait = IdleWait
    /\ scanner = NoScanner
    /\ reminder = NewReminderManager

InitRest == InitCmd /\ InitSide

-----------------------------------------------------------------------------
(* The gate's specifications *)

\* The gate with its calls one at a time: a call starts when no other runs.
AdmitCall ==
    \E c \in Conns, t \in AdmitTasks :
        /\ \A d \in Conns : conn[d].pc = "idle"
        /\ save_tasks_to_db_call(c, <<t>>, t.group_name)

InitAdmit == InitDb /\ InitConn /\ InitRun /\ InitExt /\ InitSess /\ InitStep /\ InitRest
NextAdmit ==
    \/ AdmitCall
    \/ \E c \in Conns : save_tasks_to_db_select(c)
    \/ \E c \in Conns : save_tasks_to_db_insert_task(c)
    \/ \E c \in Conns : save_tasks_to_db_insert_processed(c)
    \/ \E c \in Conns : save_tasks_to_db_commit(c)
SpecAdmit == InitAdmit /\ [][NextAdmit]_vars

\* The gate with two calls interleaved statement by statement, each on its
\* own connection (the background scanner and a manual scan).
ConcurrentCall ==
    \E c \in Conns, t \in AdmitTasks : save_tasks_to_db_call(c, <<t>>, t.group_name)

NextConcurrent ==
    \/ ConcurrentCall
    \/ \E c \in Conns : save_tasks_to_db_select(c)
    \/ \E c \in Conns : save_tasks_to_db_insert_task(c)
    \/ \E c \in Conns : save_tasks_to_db_busy(c)
    \/ \E c \in Conns : save_tasks_to_db_insert_processed(c)
    \/ \E c \in Conns : save_tasks_to_db_commit(c)
    \/ \E c \in Conns : save_tasks_to_db_raise(c)
SpecConcurrent == InitAdmit /\ [][NextConcurrent]_vars

-----------------------------------------------------------------------------
(* Scan runs *)

\* What a scan run leaves alone.
notRunVars == <<connVars, extVars, sessVars, stepVars, restVars>>

\* The bookkeeping of one run over msgs of conversation group_name on `path`.
RunOver(group_name, msgs, api, path) ==
    LET cands == Collect(hash_seed, group_name, msgs, min_words, api, path)
        db2 == save_all(Db, cands)
    IN /\ whatsapp_tasks' = db2.tasks
       /\ whatsapp_processed_messages' = db2.processed
       /\ task_seq' = db2.seq
       /\ scanned' =
             { [path |-> path, text |-> m.text, min_words |-> min_words] : m \in Range(msgs) }
       /\ reached' =
             { [path |-> path, text |-> t, min_words |-> min_words] :
                   t \in Reaching(msgs, min_words, path) }
       /\ candidates' =
             { [path |-> path, text |-> c.original_message, min_words |-> min_words] :
                   c \in Range(cands) }
       /\ idlog' = idlog \cup
             { [seed |-> hash_seed, group_name |-> c.group_name, sender |-> c.sender,
                text |-> c.original_message, task |-> c.task_description,
                message_id |-> c.message_id] : c \in Range(cands) }

\* scan_whatsapp_messages with the session authenticated and the monitored
\* conversation opened: filter, extract, then persist every candidate.
scan_whatsapp_messages_live ==
    \E msgs \in LiveMsgs, api \in ApiOutcomes :
        /\ runs < MaxRuns
        /\ runs' = runs + 1
        /\ RunOver(NameA, msgs, api, "live")
        /\ UNCHANGED <<hash_seed, clock, min_words, notRunVars>>

\* scan_from_exported_chats over one export file of conversation NameA.
scan_from_exported_chats ==
    \E msgs \in ExportMsgs, api \in ApiOutcomes :
        /\ runs < MaxRuns
        /\ runs' = runs + 1
        /\ RunOver(NameA, msgs, api, "export")
        /\ UNCHANGED <<hash_seed, clock, min_words, notRunVars>>

\* The sample tasks of use_fallback_method: ids f"fallback_{i}_{int(time.time())}",
\* sender "System", tasks 1-3 in "Fallback Group" and 4-5 in "Project Updates".
FallbackGroup == <<51>>
ProjectUpdates == <<52>>
System == <<53>>
fallback_tasks(now) ==
    [ i \in 1..5 |->
        [ message_id       |-> <<FALLBACK, US, Num(i), US, Num(now)>>,
          sender           |-> System,
          original_message |-> <<60 + i>>,
          task_description |-> <<70 + i>>,
          group_name       |-> IF i <= 3 THEN FallbackGroup ELSE ProjectUpdates ] ]

\* use_fallback_method, reached from scan_whatsapp_messages when Selenium or
\* the driver is unavailable or the scan raised.
use_fallback_method ==
    /\ runs < MaxRuns
    /\ runs' = runs + 1
    /\ LET db2 == save_all(Db, fallback_tasks(clock))
       IN /\ whatsapp_tasks' = db2.tasks
          /\ whatsapp_processed_messages' = db2.processed
          /\ task_seq' = db2.seq
    /\ reached' = {} /\ candidates' = {} /\ scanned' = {}
    /\ UNCHANGED <<hash_seed, clock, min_words, idlog, notRunVars>>

\* The process ends and a new one starts: a new str-hash seed.
Restart ==
    /\ \E sd \in 0..MaxSeed : sd # hash_seed /\ hash_seed' = sd
    /\ UNCHANGED <<dbVars, clock, min_words, reached, candidates, idlog, scanned, runs,
                   notRunVars>>

\* A second passes.
Tick ==
    /\ clock < MaxClock
    /\ clock' = clock + 1
    /\ UNCHANGED <<dbVars, hash_seed, min_words, reached, candidates, idlog, scanned, runs,
                   notRunVars>>

InitScan ==
    /\ InitDb /\ InitConn /\ InitExt /\ InitSess /\ InitStep /\ InitRest
    /\ hash_seed \in 0..MaxSeed
    /\ clock = 0
    /\ min_words \in {2, 5}
    /\ reached = {} /\ candidates = {} /\ idlog = {} /\ scanned = {}
    /\ runs = 0
NextScan ==
    \/ scan_whatsapp_messages_live
    \/ scan_from_exported_chats
    \/ Restart
SpecScan == InitScan /\ [][NextScan]_vars

\* Scan runs that end in the fallback generator, among live scans, as the
\* clock advances.
NextFallback ==
    \/ scan_whatsapp_messages_live
    \/ use_fallback_method
    \/ Tick
SpecFallback == InitScan /\ [][NextFallback]_vars

-----------------------------------------------------------------------------
(* extract_messages *)

Min(a, b) == IF a <= b THEN a ELSE b
Max(a, b) == IF a >= b THEN a ELSE b

\* Python's s[start:]: a negative start counts from the end, and both ends
\* are clamped to the list.
PySliceFrom(s, start) ==
    LET i == IF start < 0 THEN Max(Len(s) + start, 0) ELSE Min(start, Len(s))
    IN SubSeq(s, i + 1, Len(s))

\* elements[-min(max_messages, len(elements)):]
Last(elements, n) == PySliceFrom(elements, 0 - Min(n, Len(elements)))

\* The selectors of WHATSAPP_SELECTORS['message'], tried in order.
MessageSelectors == 1..4

\* Approach 2: the first selector that finds elements.
RECURSIVE FirstXPath(_, _)
FirstXPath(found, k) ==
    IF k > Len(found) THEN <<>>
    ELSE IF found[k] # <<>> THEN found[k] ELSE FirstXPath(found, k + 1)

\* The list the function slices: approach 1 (direct CSS match), else
\* approach 2 (the selector list), else approach 3 (ancestors of text nodes).
FoundElements(pg) ==
    IF pg.direct # <<>> THEN pg.direct
    ELSE IF FirstXPath(pg.xpath, 1) # <<>> THEN FirstXPath(pg.xpath, 1)
    ELSE pg.grouped

\* extract_messages(driver, max_messages)
extract_messages_result(pg, n) ==
    IF FoundElements(pg) = <<>> THEN <<>> ELSE Last(FoundElements(pg), n)

extract_messages ==
    /\ ~ extracted
    /\ messages' = extract_messages_result(page, max_messages)
    /\ extracted' = TRUE
    /\ UNCHANGED <<dbVars, connVars, runVars, sessVars, stepVars, restVars, page, max_messages>>

\* The message elements an approach can find on a page: none, or the
\* elements 1..k in page order (oldest first).
ElementLists == { [j \in 1..k |-> j] : k \in 0..MaxPage }

InitExtract ==
    /\ InitDb /\ InitConn /\ InitRun /\ InitSess /\ InitStep /\ InitRest
    /\ page \in [ direct : ElementLists,
                  xpath : [MessageSelectors -> {<<>>, [j \in 1..MaxPage |-> j]}],
                  grouped : ElementLists ]
    /\ max_messages \in 0..(MaxPage + 1)
    /\ messages = <<>>
    /\ extracted = FALSE
NextExtract == extract_messages
SpecExtract == InitExtract /\ [][NextExtract]_vars

-----------------------------------------------------------------------------
(* Browser sessions: scan_whatsapp_messages and test_whatsapp_connection   *)
(* step by step, the background scanner thread and the user's commands.    *)
(* A step that calls the driver or the database may raise.  What a scan    *)
(* reads inside one conversation, and what it stores, is the subject of    *)
(* the scan runs above.                                                    *)

\* What a step of a session leaves alone.
notSessVars == <<dbVars, connVars, runVars, extVars, stepVars, restVars>>

\* driver.quit(): counted, and the browser session is over.
Quit(rec) == [rec EXCEPT !.quits = @ + 1, !.drv = "closed"]

\* The function returns `ret`.
Return(rec, ret) == [rec EXCEPT !.pc = "done", !.ret = ret]

\* command_scan_whatsapp: a manual scan on the foreground thread.
command_scan_whatsapp ==
    /\ thr["fg"].pc = "idle"
    /\ nscans < MaxScans
    /\ nscans' = nscans + 1
    /\ thr' = [thr EXCEPT !["fg"] = [IdleThread EXCEPT !.pc = "call_scan", !.fn = "scan"]]
    /\ UNCHANGED <<config, user_disabled, stale_start, notSessVars>>

\* scan_whatsapp_messages up to the try: the config is loaded once here.
scan_begin(t) ==
    /\ thr[t].pc = "call_scan"
    /\ thr' = [thr EXCEPT ![t] =
                 IF ~ config.whatsapp_web_enabled
                    THEN Return([@ EXCEPT !.cfg = config], "False")
                 ELSE IF config.use_export
                    THEN [@ EXCEPT !.cfg = config, !.pc = "export"]
                 ELSE [@ EXCEPT !.cfg = config, !.pc = "init_driver"]]
    /\ UNCHANGED <<config, nscans, user_disabled, stale_start, notSessVars>>

\* initialize_webdriver: a driver, or None (it swallows every Exception);
\* without a driver the scan turns to use_fallback_method.
scan_init_driver(t) ==
    /\ thr[t].pc = "init_driver"
    /\ \E ok \in BOOLEAN :
          thr' = [thr EXCEPT ![t] = IF ok THEN [@ EXCEPT !.drv = "live", !.pc = "open"]
                                          ELSE [@ EXCEPT !.pc = "fallback_in_try"]]
    /\ UNCHANGED <<config, nscans, user_disabled, stale_start, notSessVars>>

\* driver.set_window_size and driver.get
scan_open(t) ==
    /\ thr[t].pc = "open"
    /\ \E raises \in BOOLEAN :
          thr' = [thr EXCEPT ![t].pc = IF raises THEN "handler" ELSE "auth"]
    /\ UNCHANGED <<config, nscans, user_disabled, stale_start, notSessVars>>

\* wait_for_chat_list(driver, 30): True or False, it raises no Exception.
scan_auth(t) ==
    /\ thr[t].pc = "auth"
    /\ \E found \in BOOLEAN :
          thr' = [thr EXCEPT ![t] = IF found THEN [@ EXCEPT !.pc = "group", !.idx = 1]
                                             ELSE [@ EXCEPT !.pc = "quit_auth"]]
    /\ UNCHANGED <<config, nscans, user_disabled, stale_start, notSessVars>>

\* Not logged in: driver.quit(); return False
scan_quit_auth(t) ==
    /\ thr[t].pc = "quit_auth"
    /\ \E raises \in BOOLEAN :
          thr' = [thr EXCEPT ![t] = IF raises THEN [Quit(@) EXCEPT !.pc = "handler"]
                                              ELSE Return(Quit(@), "False")]
    /\ UNCHANGED <<config, nscans, user_disabled, stale_start, notSessVars>>

\* One pass of `for group_name in monitored_groups`: whatever happens inside
\* (found, skipped, an exception caught and recovered), the next one follows.
scan_group(t) ==
    /\ thr[t].pc = "group"
    /\ thr' = [thr EXCEPT ![t] = IF @.idx < NumGroups THEN [@ EXCEPT !.idx = @ + 1]
                                                       ELSE [@ EXCEPT !.pc = "quit"]]
    /\ UNCHANGED <<config, nscans, user_disabled, stale_start, notSessVars>>

\* driver.quit() after the loop
scan_quit(t) ==
    /\ thr[t].pc = "quit"
    /\ \E raises \in BOOLEAN :
          thr' = [thr EXCEPT ![t] =
                    [Quit(@) EXCEPT !.pc = IF raises THEN "handler" ELSE "save"]]
    /\ UNCHANGED <<config, nscans, user_disabled, stale_start, notSessVars>>

\* The save_tasks_to_db calls over all_tasks
scan_save(t) ==
    /\ thr[t].pc = "save"
    /\ \E raises \in BOOLEAN :
          thr' = [thr EXCEPT ![t].pc = IF raises THEN "handler" ELSE "save_config"]
    /\ UNCHANGED <<config, nscans, user_disabled, stale_start, notSessVars>>

\* config["last_scan_time"] = now; save_whatsapp_config(config): the dict
\* loaded when the scan began is written back whole.
SaveLoadedConfig(rec, now) == [rec.cfg EXCEPT !.last_scan_time = now]

scan_save_config(t) ==
    /\ thr[t].pc = "save_config"
    /\ config' = SaveLoadedConfig(thr[t], nscans)
    /\ \E ret \in {"True", "False"} : thr' = [thr EXCEPT ![t] = Return(@, ret)]
    /\ UNCHANGED <<nscans, user_disabled, stale_start, notSessVars>>

\* except Exception: `if driver: driver.quit()`, then use_fallback_method
scan_handler(t) ==
    /\ thr[t].pc = "handler"
    /\ \E raises \in BOOLEAN :
          thr' = [thr EXCEPT ![t] =
                    IF @.drv = "none" THEN [@ EXCEPT !.pc = "fallback"]
                    ELSE [Quit(@) EXCEPT !.pc = IF raises THEN "raised" ELSE "fallback"]]
    /\ UNCHANGED <<config, nscans, user_disabled, stale_start, notSessVars>>

\* `return use_fallback_method(problem_id)` inside the try: its exception
\* goes to the handler.
scan_fallback_in_try(t) ==
    /\ thr[t].pc = "fallback_in_try"
    /\ \E raises \in BOOLEAN, ret \in {"True", "False"} :
          thr' = [thr EXCEPT ![t] = IF raises THEN [@ EXCEPT !.pc = "handler"]
                                              ELSE Return(@, ret)]
    /\ UNCHANGED <<config, nscans, user_disabled, stale_start, notSessVars>>

\* `return use_fallback_method(problem_id)` in the handler: its exception
\* leaves scan_whatsapp_messages.
scan_fallback(t) ==
    /\ thr[t].pc = "fallback"
    /\ \E raises \in BOOLEAN, ret \in {"True", "False"} :
          thr' = [thr EXCEPT ![t] = IF raises THEN [@ EXCEPT !.pc = "raised"]
                                              ELSE Return(@, ret)]
    /\ UNCHANGED <<config, nscans, user_disabled, stale_start, notSessVars>>

\* scan_from_exported_chats: the config is loaded again; then no export
\* files, an exception of a save, or on to the config write.
scan_export(t) ==
    /\ thr[t].pc = "export"
    /\ \E out \in {"no_files", "raises", "saved"} :
          thr' = [thr EXCEPT ![t] =
                    IF out = "no_files" THEN Return([@ EXCEPT !.cfg = config], "False")
                    ELSE IF out = "raises" THEN [@ EXCEPT !.cfg = config, !.pc = "raised"]
                    ELSE [@ EXCEPT !.cfg = config, !.pc = "export_save_config"]]
    /\ UNCHANGED <<config, nscans, user_disabled, stale_start, notSessVars>>

scan_export_save_config(t) ==
    /\ thr[t].pc = "export_save_config"
    /\ config' = SaveLoadedConfig(thr[t], nscans)
    /\ \E ret \in {"True", "False"} : thr' = [thr EXCEPT ![t] = Return(@, ret)]
    /\ UNCHANGED <<nscans, user_disabled, stale_start, notSessVars>>

\* test_whatsapp_connection is called on the foreground thread (by
\* configure_whatsapp, after the config is saved).
call_test_whatsapp_connection ==
    /\ thr["fg"].pc = "idle"
    /\ nscans < MaxScans
    /\ nscans' = nscans + 1
    /\ thr' = [thr EXCEPT !["fg"] = [IdleThread EXCEPT !.pc = "t_begin", !.fn = "test"]]
    /\ UNCHANGED <<config, user_disabled, stale_start, notSessVars>>

\* test_whatsapp_connection up to the try
test_begin(t) ==
    /\ thr[t].pc = "t_begin"
    /\ thr' = [thr EXCEPT ![t] =
                 IF ~ config.whatsapp_web_enabled
                    THEN Return([@ EXCEPT !.cfg = config], "False")
                    ELSE [@ EXCEPT !.cfg = config, !.pc = "t_init"]]
    /\ UNCHANGED <<config, nscans, user_disabled, stale_start, notSessVars>>

\* driver = initialize_webdriver(...); `if not driver: return False`
test_init_driver(t) ==
    /\ thr[t].pc = "t_init"
    /\ \E ok \in BOOLEAN :
          thr' = [thr EXCEPT ![t] = IF ok THEN [@ EXCEPT !.drv = "live", !.pc = "t_open"]
                                          ELSE Return(@, "False")]
    /\ UNCHANGED <<config, nscans, user_disabled, stale_start, notSessVars>>

\* driver.set_window_size and driver.get
test_open(t) ==
    /\ thr[t].pc = "t_open"
    /\ \E raises \in BOOLEAN :
          thr' = [thr EXCEPT ![t].pc = IF raises THEN "t_handler" ELSE "t_qr"]
    /\ UNCHANGED <<config, nscans, user_disabled, stale_start, notSessVars>>

\* The loop over the qr_code selectors: a QR code, none, or an exception
\* that the inner `except Exception` reports and passes over.
test_qr(t) ==
    /\ thr[t].pc = "t_qr"
    /\ \E out \in {"found_qr", "no_qr", "raises"} :
          thr' = [thr EXCEPT ![t].pc = IF out = "found_qr" THEN "t_login" ELSE "t_logged"]
    /\ UNCHANGED <<config, nscans, user_disabled, stale_start, notSessVars>>

\* After the QR code: wait_for_chat_list(driver, 120), then driver.quit()
\* and the return; an exception of quit is caught by the inner handler.
test_login(t) ==
    /\ thr[t].pc = "t_login"
    /\ \E found \in BOOLEAN, raises \in BOOLEAN :
          thr' = [thr EXCEPT ![t] =
                    IF raises THEN [Quit(@) EXCEPT !.pc = "t_logged"]
                    ELSE Return(Quit(@), IF found THEN "True" ELSE "False")]
    /\ UNCHANGED <<config, nscans, user_disabled, stale_start, notSessVars>>

\* Without a QR code: wait_for_chat_list(driver, 30), which finds nothing
\* on a driver that has quit; then driver.quit() and the return.
test_logged(t) ==
    /\ thr[t].pc = "t_logged"
    /\ \E found \in BOOLEAN, raises \in BOOLEAN :
          /\ found => thr[t].drv = "live"
          /\ thr' = [thr EXCEPT ![t] =
                       IF raises THEN [Quit(@) EXCEPT !.pc = "t_handler"]
                       ELSE Return(Quit(@), IF found THEN "True" ELSE "False")]
    /\ UNCHANGED <<config, nscans, user_disabled, stale_start, notSessVars>>

\* except Exception: `if driver: driver.quit()`; return False
test_handler(t) ==
    /\ thr[t].pc = "t_handler"
    /\ \E raises \in BOOLEAN :
          thr' = [thr EXCEPT ![t] = IF raises THEN [Quit(@) EXCEPT !.pc = "raised"]
                                              ELSE Return(Quit(@), "False")]
    /\ UNCHANGED <<config, nscans, user_disabled, stale_start, notSessVars>>

\* Where a thread is inside scan_whatsapp_messages or test_whatsapp_connection.
Inside == { "call_scan", "init_driver", "open", "auth", "quit_auth", "group", "quit", "save",
            "save_config", "handler", "fallback_in_try", "fallback", "export",
            "export_save_config",
            "t_begin", "t_init", "t_open", "t_qr", "t_login", "t_logged", "t_handler" }

\* KeyboardInterrupt on the main thread (Ctrl-C during a manual scan or a
\* connection test): a BaseException, which `except Exception` lets through.
KeyboardInterrupt ==
    /\ thr["fg"].pc \in Inside
    /\ thr' = [thr EXCEPT !["fg"].pc = "raised"]
    /\ UNCHANGED <<config, nscans, user_disabled, stale_start, notSessVars>>

\* The foreground command is over.
command_end ==
    /\ thr["fg"].pc \in {"done", "raised"}
    /\ thr' = [thr EXCEPT !["fg"].pc = "idle"]
    /\ UNCHANGED <<config, nscans, user_disabled, stale_start, notSessVars>>

\* scanner_thread, the top of a cycle: the config is reloaded; the loop
\* breaks if auto_scan or whatsapp_web_enabled is off, else a scan starts.
scanner_thread_top ==
    /\ thr["bg"].pc = "bg_top"
    /\ IF ~ config.auto_scan \/ ~ config.whatsapp_web_enabled
          THEN /\ thr' = [thr EXCEPT !["bg"].pc = "bg_terminated"]
               /\ UNCHANGED <<nscans, stale_start>>
          ELSE /\ nscans < MaxScans
               /\ nscans' = nscans + 1
               /\ thr' = [thr EXCEPT !["bg"] =
                            [IdleThread EXCEPT !.pc = "call_scan", !.fn = "scan"]]
               /\ stale_start' = (stale_start \/ user_disabled)
    /\ UNCHANGED <<config, user_disabled, notSessVars>>

\* scanner_thread after the scan: time.sleep(scan_interval), or after an
\* exception time.sleep(300); then the next cycle.
scanner_thread_sleep ==
    /\ thr["bg"].pc \in {"done", "raised"}
    /\ thr' = [thr EXCEPT !["bg"].pc = "bg_top"]
    /\ UNCHANGED <<config, nscans, user_disabled, stale_start, notSessVars>>

\* configure_whatsapp by the user, switching the scanner or the integration
\* off: the file is loaded, changed and saved in one go.
configure_whatsapp_off ==
    /\ \E flag \in {"auto_scan", "whatsapp_web_enabled"} :
          /\ config[flag]
          /\ config' = [config EXCEPT ![flag] = FALSE]
    /\ user_disabled' = TRUE
    /\ UNCHANGED <<thr, nscans, stale_start, notSessVars>>

\* The scanner is running: start_background_scanner found both flags on.
InitSession ==
    /\ InitDb /\ InitConn /\ InitRun /\ InitExt /\ InitStep /\ InitRest
    /\ \E ue \in BOOLEAN :
          config = [DefaultConfig EXCEPT !.whatsapp_web_enabled = TRUE, !.auto_scan = TRUE,
                                         !.use_export = ue]
    /\ thr = [t \in Threads |-> IF t = "bg" THEN [IdleThread EXCEPT !.pc = "bg_top"]
                                               ELSE IdleThread]
    /\ nscans = 0
    /\ user_disabled = FALSE
    /\ stale_start = FALSE

NextSession ==
    \/ command_scan_whatsapp
    \/ call_test_whatsapp_connection
    \/ \E t \in Threads : scan_begin(t)
    \/ \E t \in Threads : scan_init_driver(t)
    \/ \E t \in Threads : scan_open(t)
    \/ \E t \in Threads : scan_auth(t)
    \/ \E t \in Threads : scan_quit_auth(t)
    \/ \E t \in Threads : scan_group(t)
    \/ \E t \in Threads : scan_quit(t)
    \/ \E t \in Threads : scan_save(t)
    \/ \E t \in Threads : scan_save_config(t)
    \/ \E t \in Threads : scan_handler(t)
    \/ \E t \in Threads : scan_fallback_in_try(t)
    \/ \E t \in Threads : scan_fallback(t)
    \/ \E t \in Threads : scan_export(t)
    \/ \E t \in Threads : scan_export_save_config(t)
    \/ \E t \in Threads : test_begin(t)
    \/ \E t \in Threads : test_init_driver(t)
    \/ \E t \in Threads : test_open(t)
    \/ \E t \in Threads : test_qr(t)
    \/ \E t \in Threads : test_login(t)
    \/ \E t \in Threads : test_logged(t)
    \/ \E t \in Threads : test_handler(t)
    \/ KeyboardInterrupt
    \/ command_end
    \/ scanner_thread_top
    \/ scanner_thread_sleep
    \/ configure_whatsapp_off

SpecSession == InitSession /\ [][NextSession]_vars

-----------------------------------------------------------------------------
(* Selector resolution: the loops over WHATSAPP_SELECTORS[key] *)

\* The keys whose list a loop walks through.
SelectorKeys == {"chat_search", "contact_by_name", "message_container", "back_button"}

\* len(WHATSAPP_SELECTORS[key])
Alternatives(key) ==
    CASE key = "chat_search"       -> 4
      [] key = "contact_by_name"   -> 3
      [] key = "message_container" -> 3
      [] key = "chat_list"         -> 5
      [] key = "back_button"       -> 4

\* What evaluating one alternative on the page can do: the element is found
\* and used ("match"), or the lookup or the use of the element raises.
AlternativeOutcomes(key) ==
    CASE key = "chat_search" ->
            {"match", "TimeoutException", "ElementNotInteractableException",
             "StaleElementReferenceException"}
      [] key = "contact_by_name" ->
            {"match", "TimeoutException", "ElementClickInterceptedException",
             "StaleElementReferenceException"}
      [] key = "message_container" ->
            {"match", "NoSuchElementException"}
      [] key = "back_button" ->
            {"match", "NoSuchElementException", "ElementClickInterceptedException",
             "StaleElementReferenceException"}

\* The except clause of the loop over the key's list: these continue with
\* the next alternative, anything else leaves the loop as an exception.
SwallowedNothing(key) == {}
Swallowed(key) ==
    CASE key = "chat_search" ->
            {"TimeoutException", "NoSuchElementException",
             "ElementClickInterceptedException", "ElementNotInteractableException"}
      [] key = "contact_by_name" ->
            {"TimeoutException", "NoSuchElementException", "ElementClickInterceptedException"}
      [] key = "message_container" ->
            {"NoSuchElementException"}
      [] key = "back_button" ->
            {"NoSuchElementException", "ElementClickInterceptedException"}

\* The loop is entered for `key` on a page that answers each alternative.
resolve_begin ==
    /\ sel.key = "none"
    /\ \E key \in SelectorKeys :
          \E pg \in [1..Alternatives(key) -> AlternativeOutcomes(key)] :
             sel' = [ key |-> key, page |-> pg, evaluated |-> <<>>, found |-> 0,
                      done |-> FALSE ]
    /\ UNCHANGED <<dbVars, connVars, runVars, extVars, sessVars, live, oplog, extlog, restVars>>

\* One pass of `for selector in WHATSAPP_SELECTORS[key]`: the alternative is
\* evaluated; a match ends the loop, a swallowed exception goes on to the
\* next alternative (the loop ends after the last), another exception
\* leaves the loop.
resolve_try ==
    /\ sel.key # "none"
    /\ ~ sel.done
    /\ LET k == Len(sel.evaluated) + 1
           out == sel.page[k]
       IN sel' = [sel EXCEPT
                    !.evaluated = Append(@, k),
                    !.found = IF out = "match" THEN k ELSE 0,
                    !.done = \/ out = "match"
                             \/ out \notin Swallowed(sel.key)
                             \/ k = Alternatives(sel.key)]
    /\ UNCHANGED <<dbVars, connVars, runVars, extVars, sessVars, live, oplog, extlog, restVars>>

InitResolve == InitDb /\ InitConn /\ InitRun /\ InitExt /\ InitSess /\ InitStep /\ InitRest
NextResolve ==
    \/ resolve_begin
    \/ resolve_try
SpecResolve == InitResolve /\ [][NextResolve]_vars

-----------------------------------------------------------------------------
(* One live scan, step by step: scan_whatsapp_messages from its call to    *)
(* its return, with what it does to the driver and the database logged.    *)
(* driver.quit() is taken to return: the Chrome, Firefox and Edge drivers  *)
(* catch what their own quit raises.                                       *)

\* config["monitored_groups"]: the conversations g1..gn, by name.
MonitoredGroups == [i \in 1..NumGroups |-> <<i>>]

\* The position of a conversation name in the list.
GroupIndex(name) == CHOOSE i \in 1..NumGroups : MonitoredGroups[i] = name

\* One entry of the log.
Op(op, g, arg) == [op |-> op, g |-> g, arg |-> arg]

notLiveVars == <<connVars, extVars, thr, nscans, user_disabled, stale_start, sel, extlog,
                 restVars>>

\* What the page shows for a conversation name after the search: whether a
\* contact_by_name alternative becomes clickable, whether an element whose
\* text contains the name can be clicked, whether any visible row can.
ContactPages == [by_name : BOOLEAN, by_text : BOOLEAN, row : BOOLEAN]

\* click_on_contact_or_group(driver, name): the templated selectors, then
\* the elements containing the name, then the first visible row of
\* '[role="row"], .chat-item, ._2aBzC', whatever its name.
click_on_contact_or_group(pg) ==
    IF pg.by_name \/ pg.by_text THEN [ret |-> TRUE, opened |-> "named"]
    ELSE IF pg.row THEN [ret |-> TRUE, opened |-> "other"]
    ELSE [ret |-> FALSE, opened |-> "none"]

\* scan_whatsapp_messages(): the config is loaded; the integration is on
\* and the export path is off.
live_begin ==
    /\ live.pc = "idle"
    /\ live' = [live EXCEPT !.cfg = config,
                            !.pc = IF config.whatsapp_web_enabled /\ ~ config.use_export
                                      THEN "init_driver" ELSE "done",
                            !.ret = IF config.whatsapp_web_enabled /\ ~ config.use_export
                                       THEN "none" ELSE "False"]
    /\ UNCHANGED <<dbVars, runVars, config, oplog, notLiveVars>>

\* driver = initialize_webdriver(...); `if not driver: return use_fallback_method(...)`
live_init_driver ==
    /\ live.pc = "init_driver"
    /\ \E ok \in BOOLEAN :
          IF ok THEN /\ live' = [live EXCEPT !.drv = "live", !.pc = "open"]
                     /\ oplog' = Append(oplog, Op("launch", 0, "-"))
                ELSE /\ live' = [live EXCEPT !.pc = "fallback_in_try"]
                     /\ UNCHANGED oplog
    /\ UNCHANGED <<dbVars, runVars, config, notLiveVars>>

\* driver.set_window_size(1200, 800); driver.get("https://web.whatsapp.com/")
live_open ==
    /\ live.pc = "open"
    /\ \E raises \in BOOLEAN :
          live' = [live EXCEPT !.pc = IF raises THEN "handler" ELSE "auth"]
    /\ oplog' = Append(oplog, Op("get", 0, "-"))
    /\ UNCHANGED <<dbVars, runVars, config, notLiveVars>>

\* Where the scan goes when wait_for_chat_list found no marker:
\* driver.quit(); return False
AuthFailureToFallback(rec) == [rec EXCEPT !.auth = "no", !.drv = "closed", !.pc = "fallback"]
AuthFailure(rec) ==
    [rec EXCEPT !.auth = "no", !.drv = "closed", !.pc = "done", !.ret = "False"]

\* chat_list_found = wait_for_chat_list(driver, 30) and the branch on it
live_auth ==
    /\ live.pc = "auth"
    /\ \E found \in BOOLEAN :
          IF found
             THEN /\ live' = [live EXCEPT !.auth = "yes", !.pc = "group", !.idx = 1]
                  /\ oplog' = Append(oplog, Op("wait_for_chat_list", 0, "found"))
             ELSE /\ live' = AuthFailure(live)
                  /\ oplog' = oplog \o <<Op("wait_for_chat_list", 0, "not found"),
                                         Op("quit", 0, "-")>>
    /\ UNCHANGED <<dbVars, runVars, config, notLiveVars>>

\* What extract_message_info decodes from the messages of an opened
\* conversation: nothing found, a short message, a five-word request.
ConvMsgs == { <<>>, <<Msg(TextOk)>>, <<Msg(TextLong)>> }

\* One pass of `for group_name in monitored_groups` for conversation i:
\* the driver operations it issues and the task dicts it appends.
\*   search  - find_and_interact_with_search_box: "True", "False" or "raises"
\*   pg      - what the page shows for the name after the search
\*   msgs    - what the opened conversation holds
\*   raises  - an exception while the opened conversation is read
ConversationStep(i, search, pg, msgs, api, raises) ==
    LET clicked == click_on_contact_or_group(pg)
        recover == <<Op("reload", i, "-")>>
        back == <<Op("back", i, "-")>>
    IN IF search = "False"
          THEN [ops |-> <<Op("search", i, "not found")>>, tasks |-> <<>>, raised |-> FALSE]
       ELSE IF search = "raises"
          THEN [ops |-> <<Op("search", i, "raised")>> \o recover, tasks |-> <<>>,
                raised |-> TRUE]
       ELSE IF ~ clicked.ret
          THEN [ops |-> <<Op("search", i, "found"), Op("click", i, "none")>> \o back,
                tasks |-> <<>>, raised |-> FALSE]
       ELSE IF raises
          THEN [ops |-> <<Op("search", i, "found"), Op("click", i, clicked.opened),
                          Op("extract", i, "raised")>> \o recover,
                tasks |-> <<>>, raised |-> TRUE]
       ELSE IF msgs = <<>>
          THEN [ops |-> <<Op("search", i, "found"), Op("click", i, clicked.opened),
                          Op("extract", i, "none")>> \o back,
                tasks |-> <<>>, raised |-> FALSE]
       ELSE [ops |-> <<Op("search", i, "found"), Op("click", i, clicked.opened),
                       Op("extract", i, "messages")>> \o back,
             tasks |-> Collect(hash_seed, MonitoredGroups[i], msgs, min_words, api, "live"),
             raised |-> FALSE]

\* After the pass, whether it ended in `continue`, at its end or in the
\* `except Exception` of the conversation: the next conversation, or after
\* the last one the code below the loop.
AfterConversationAbort(rec, raised) ==
    IF raised THEN [rec EXCEPT !.pc = "handler"]
    ELSE IF rec.idx < NumGroups THEN [rec EXCEPT !.idx = @ + 1]
    ELSE [rec EXCEPT !.pc = "quit"]
AfterConversation(rec, raised) ==
    IF rec.idx < NumGroups THEN [rec EXCEPT !.idx = @ + 1] ELSE [rec EXCEPT !.pc = "quit"]

live_group ==
    /\ live.pc = "group"
    /\ \E search \in {"True", "False", "raises"}, pg \in ContactPages, msgs \in ConvMsgs,
          api \in ApiOutcomes, raises \in BOOLEAN :
          LET step == ConversationStep(live.idx, search, pg, msgs, api, raises)
          IN /\ oplog' = oplog \o step.ops
             /\ live' = AfterConversation([live EXCEPT !.all_tasks = @ \o step.tasks],
                                          step.raised)
    /\ UNCHANGED <<dbVars, runVars, config, notLiveVars>>

\* driver.quit() below the loop
live_quit ==
    /\ live.pc = "quit"
    /\ live' = [live EXCEPT !.drv = "closed", !.pc = "save"]
    /\ oplog' = Append(oplog, Op("quit", 0, "-"))
    /\ UNCHANGED <<dbVars, runVars, config, notLiveVars>>

\* One pass of `for task in all_tasks: added = save_tasks_to_db([task], ...)`:
\* the call commits (or skips a processed id), or a database write raises
\* and nothing of this call is committed.  After the last task, on to the
\* config write.
live_save ==
    /\ live.pc = "save"
    /\ IF live.saved = Len(live.all_tasks)
          THEN /\ live' = [live EXCEPT !.pc = "save_config"]
               /\ UNCHANGED <<dbVars, oplog>>
          ELSE \E raises \in BOOLEAN :
                 LET task == live.all_tasks[live.saved + 1]
                     db2 == save_one(Db, task, task.group_name)
                     g == GroupIndex(task.group_name)
                 IN IF raises
                       THEN /\ live' = [live EXCEPT !.pc = "handler", !.save_failed = TRUE]
                            /\ oplog' = Append(oplog, Op("persist", g, "raised"))
                            /\ UNCHANGED dbVars
                       ELSE /\ live' = [live EXCEPT !.saved = @ + 1,
                                                    !.added = @ + (db2.seq - task_seq)]
                            /\ oplog' = Append(oplog, Op("persist", g, "committed"))
                            /\ whatsapp_tasks' = db2.tasks
                            /\ whatsapp_processed_messages' = db2.processed
                            /\ task_seq' = db2.seq
    /\ UNCHANGED <<runVars, config, notLiveVars>>

\* config["last_scan_time"] = now; save_whatsapp_config(config); the return
live_save_config ==
    /\ live.pc = "save_config"
    /\ config' = SaveLoadedConfig(live, clock + 1)
    /\ live' = [live EXCEPT !.pc = "done", !.ret = IF live.added > 0 THEN "True" ELSE "False"]
    /\ UNCHANGED <<dbVars, runVars, oplog, notLiveVars>>

\* except Exception: `if driver: driver.quit()`: the name is bound to the
\* driver object whether or not quit was called on it before.
live_handler ==
    /\ live.pc = "handler"
    /\ live' = [live EXCEPT !.pc = "fallback",
                            !.drv = IF @ = "none" THEN "none" ELSE "closed"]
    /\ oplog' = IF live.drv = "none" THEN oplog ELSE Append(oplog, Op("quit", 0, "-"))
    /\ UNCHANGED <<dbVars, runVars, config, notLiveVars>>

\* return use_fallback_method(problem_id): the five sample tasks go through
\* save_tasks_to_db; a database write that raises ends it.  Inside the try
\* the exception goes to the handler, in the handler it leaves the scan.
live_fallback ==
    /\ live.pc \in {"fallback_in_try", "fallback"}
    /\ \E raises \in BOOLEAN :
          LET db2 == save_all(Db, fallback_tasks(clock))
          IN IF raises
                THEN /\ live' = [live EXCEPT
                                   !.pc = IF @ = "fallback_in_try" THEN "handler" ELSE "raised"]
                     /\ oplog' = Append(oplog, Op("fallback", 0, "raised"))
                     /\ UNCHANGED dbVars
                ELSE /\ live' = [live EXCEPT
                                   !.pc = "done",
                                   !.ret = IF db2.seq > task_seq THEN "True" ELSE "False"]
                     /\ oplog' = Append(oplog, Op("fallback", 0, "committed"))
                     /\ whatsapp_tasks' = db2.tasks
                     /\ whatsapp_processed_messages' = db2.processed
                     /\ task_seq' = db2.seq
    /\ UNCHANGED <<runVars, config, notLiveVars>>

\* The integration is configured on, over browser automation.
InitLive ==
    /\ InitDb /\ InitConn /\ InitRun /\ InitExt /\ InitStep /\ InitRest
    /\ config = [DefaultConfig EXCEPT !.whatsapp_web_enabled = TRUE]
    /\ thr = [t \in Threads |-> IdleThread]
    /\ nscans = 0
    /\ user_disabled = FALSE
    /\ stale_start = FALSE

NextLive ==
    \/ live_begin
    \/ live_init_driver
    \/ live_open
    \/ live_auth
    \/ live_group
    \/ live_quit
    \/ live_save
    \/ live_save_config
    \/ live_handler
    \/ live_fallback

SpecLive == InitLive /\ [][NextLive]_vars

-----------------------------------------------------------------------------
(* extract_tasks_from_message with call_claude_api, call by call *)

\* What happens to one call of the API: no key is stored; the POST raises
\* (network); the status is not 200; the status is 200 and the body cannot
\* be parsed (response.json() or result["content"][0]["text"] raises); the
\* status is 200 and the body holds a text.
ApiEvents ==
    { [kind |-> k, body |-> <<>>] :
          k \in {"no_key", "network_exception", "non_200", "parse_exception"} }
      \cup { [kind |-> "status_200", body |-> b] : b \in {ApiTask, <<NO_TASK>>, <<SP>>} }

\* call_claude_api(prompt): the text of the reply, or None; `raised` is an
\* exception leaving the function.
call_claude_api_propagating(event) ==
    [ raised |-> event.kind \in {"network_exception", "parse_exception"},
      is_none |-> event.kind # "status_200", text |-> event.body ]
call_claude_api(event) ==
    IF event.kind = "status_200"
       THEN [raised |-> FALSE, is_none |-> FALSE, text |-> event.body]
       ELSE [raised |-> FALSE, is_none |-> TRUE, text |-> <<>>]

\* `if response and response.strip() and "NO_TASK" not in response`
UsableReply(response) ==
    /\ ~ response.is_none
    /\ strip(response.text) # <<>>
    /\ \A k \in 1..Len(response.text) : response.text[k] # NO_TASK

\* One call extract_tasks_from_message(text) in which the API call goes as
\* `event`: without a key the API is not called; a usable reply gives the
\* tasks, anything else the rule-based extraction.
ExtractCall(text, event) ==
    IF event.kind = "no_key"
       THEN [raised |-> FALSE, tasks |-> extract_tasks_from_message(text, "none")]
    ELSE LET response == call_claude_api(event)
         IN IF response.raised THEN [raised |-> TRUE, tasks |-> <<>>]
            ELSE [raised |-> FALSE,
                  tasks |-> extract_tasks_from_message(
                               text, IF UsableReply(response) THEN "reply" ELSE "none")]

\* Message texts as a scan hands them over, without surrounding whitespace:
\* "ok"; "please send"; "please send report"; the five-word request;
\* "can you send"; "send report now"; "- please send report"; two lines.
TextTwoWords == <<PLEASE, SP, VERB>>
TextCanYou == <<CAN, SP, YOU, SP, VERB>>
TextVerb == <<VERB, SP, WORD, SP, WORD>>
TextMarker == <<DASH, SP>> \o TextShort
TextTwoLines == TextShort \o <<NL>> \o TextCanYou
TaskTexts == { TextOk, TextTwoWords, TextShort, TextLong, TextCanYou, TextVerb, TextMarker,
               TextTwoLines }

\* A message of conversation NameA from sender NameB is extracted from and
\* its tasks are stored, as the scans do; a behaviour follows one message
\* through its scan and its re-scans.
extract_and_store ==
    /\ Cardinality(extlog) < MaxExtract
    /\ \E text \in TaskTexts, event \in ApiEvents :
          /\ \A e \in extlog : e.text = text
          /\ LET call == ExtractCall(text, event)
                 db2 == save_all(Db, TaskDicts(hash_seed, NameA, NameB, text, call.tasks))
              IN /\ extlog' = extlog \cup
                       { [ text |-> text, event |-> event, raised |-> call.raised,
                           tasks |-> call.tasks, seed |-> hash_seed ] }
                 /\ whatsapp_tasks' = db2.tasks
                 /\ whatsapp_processed_messages' = db2.processed
                 /\ task_seq' = db2.seq
    /\ UNCHANGED <<connVars, runVars, extVars, sessVars, live, oplog, sel, restVars>>

InitTasks ==
    /\ InitDb /\ InitConn /\ InitExt /\ InitSess /\ InitStep /\ InitRest
    /\ hash_seed \in 0..MaxSeed
    /\ clock = 0
    /\ min_words = 5
    /\ reached = {} /\ candidates = {} /\ idlog = {} /\ scanned = {}
    /\ runs = 0

NextTasks ==
    \/ extract_and_store
    \/ Restart

SpecTasks == InitTasks /\ [][NextTasks]_vars

-----------------------------------------------------------------------------
(* The task commands, and a scan called with the id of a problem.  The     *)
(* commands run one at a time in the foreground; while a foreground scan   *)
(* is between its last save and its assignment, the scanner thread may     *)
(* store the tasks of its own scan.                                        *)

\* Table problems: problem 1 exists, 2 is the id of no problem.
Problems == {1}
ProblemArgs == {1, 2}

\* The priority argument as typed, and str.lower() of it.
PriorityArgs == {"HIGH", "urgent"}
str_lower(priority) == IF priority = "HIGH" THEN "high" ELSE priority

\* `priority.lower() not in valid_priorities` is false.
ValidPriorityAny(priority) == TRUE
ValidPriority(priority) == str_lower(priority) \in {"high", "medium", "low"}

\* SELECT ... FROM whatsapp_tasks WHERE id = ? finds a row.
TaskExists(tasks, task_id) == \E k \in 1..Len(tasks) : tasks[k].id = task_id
TaskWithId(tasks, task_id) == tasks[CHOOSE k \in 1..Len(tasks) : tasks[k].id = task_id]

\* UPDATE whatsapp_tasks SET status = ? / priority = ? / problem_id = ? WHERE id = ?
SetStatus(tasks, task_id, v) ==
    [ k \in 1..Len(tasks) |->
        IF tasks[k].id = task_id THEN [tasks[k] EXCEPT !.status = v] ELSE tasks[k] ]
SetPriority(tasks, task_id, v) ==
    [ k \in 1..Len(tasks) |->
        IF tasks[k].id = task_id THEN [tasks[k] EXCEPT !.priority = v] ELSE tasks[k] ]
SetProblem(tasks, task_id, v) ==
    [ k \in 1..Len(tasks) |->
        IF tasks[k].id = task_id THEN [tasks[k] EXCEPT !.problem_id = v] ELSE tasks[k] ]

\* DELETE FROM whatsapp_tasks WHERE id = ?: the two tables after it.
DeleteWithRecord(tasks, processed, task_id) ==
    [ tasks |-> SelectSeq(tasks, LAMBDA r : r.id # task_id),
      processed |-> { p \in processed :
                        p.message_id # TaskWithId(tasks, task_id).message_id } ]
Delete(tasks, processed, task_id) ==
    [ tasks |-> SelectSeq(tasks, LAMBDA r : r.id # task_id),
      processed |-> processed ]

\* assign_recent_tasks_to_problem(problem_id, count) on table `tasks`: the
\* `count` unassigned pending rows of highest id get the problem.
assign_recent_tasks_to_problem(tasks, problem_id, count) ==
    IF problem_id \notin Problems THEN tasks
    ELSE LET unassigned == { k \in 1..Len(tasks) :
                               tasks[k].problem_id = NULL /\ tasks[k].status = "pending" }
             task_ids == { k \in unassigned :
                             Cardinality({ j \in unassigned : j > k }) < count }
         IN [ k \in 1..Len(tasks) |->
                IF k \in task_ids THEN [tasks[k] EXCEPT !.problem_id = problem_id]
                ELSE tasks[k] ]

\* `if problem_id is not None and tasks_added > 0: assign_recent_tasks_to_problem(...)`
\* (NULL stands for None).
AssignAfter(tasks, problem_id, tasks_added) ==
    IF problem_id # NULL /\ tasks_added > 0
       THEN assign_recent_tasks_to_problem(tasks, problem_id, tasks_added)
       ELSE tasks

\* What a command leaves alone.
notCmdVars == <<connVars, runVars, extVars, sessVars, stepVars, sideVars>>

\* The command under way and the number of commands so far.
Command(op, task_id, priority) ==
    [ NoCommand EXCEPT !.op = op, !.task_id = task_id, !.priority = priority,
                       !.n = last.n + 1 ]

\* The task id argument: the first task, or the id of no task yet.
TaskIdArgs == {1, task_seq + 1}

\* The foreground is between two commands.
Foreground == last.op # "scan_stored"
MoreCommands == Foreground /\ last.n < MaxCommands

\* `if use_export or config.get("use_export", False)`: the path of a scan.
ScanPath == IF config.use_export THEN "export" ELSE "live"

\* The messages a scan reads in conversation NameA.
CommandMsgs == { <<Msg(TextLong)>>, <<Msg(TextShort), Msg(TextLong)>> }

\* A scan called with problem_id (scan_whatsapp_messages over the browser,
\* or scan_from_exported_chats), up to the end of its save loop.
scan_store ==
    /\ Foreground
    /\ runs < MaxRuns
    /\ \E problem_id \in {NULL} \cup ProblemArgs, msgs \in CommandMsgs :
          LET cands == Collect(hash_seed, NameA, msgs, min_words, "none", ScanPath)
              db2 == save_all(Db, cands)
          IN /\ whatsapp_tasks' = db2.tasks
             /\ whatsapp_processed_messages' = db2.processed
             /\ task_seq' = db2.seq
             /\ last' = [ NoCommand EXCEPT
                            !.op = "scan_stored",
                            !.problem_id = problem_id,
                            !.added = db2.seq - task_seq,
                            !.new_ids = (task_seq + 1)..db2.seq,
                            !.offered = { c.message_id : c \in Range(cands) },
                            !.n = last.n ]
    /\ runs' = runs + 1
    /\ UNCHANGED <<hash_seed, clock, min_words, reached, candidates, idlog, scanned>>
    /\ UNCHANGED <<connVars, extVars, sessVars, stepVars, sideVars, action_steps>>

\* A scan of the scanner thread (scan_whatsapp_messages()) stores its tasks
\* while the foreground scan is before its assignment.
scanner_thread_scan ==
    /\ ~ Foreground
    /\ runs < MaxRuns
    /\ \E msgs \in CommandMsgs :
          LET db2 == save_all(Db, Collect(hash_seed, NameB, msgs, min_words, "none", "live"))
          IN /\ whatsapp_tasks' = db2.tasks
             /\ whatsapp_processed_messages' = db2.processed
             /\ task_seq' = db2.seq
    /\ runs' = runs + 1
    /\ UNCHANGED <<hash_seed, clock, min_words, reached, candidates, idlog, scanned>>
    /\ UNCHANGED <<connVars, extVars, sessVars, stepVars, restVars>>

\* The rest of the scan: save_whatsapp_config, then the assignment.  When
\* the save of the config raises, the browser scan's handler runs
\* use_fallback_method(problem_id); the export scan has no handler.
scan_finish ==
    /\ ~ Foreground
    /\ \E raises \in BOOLEAN :
          IF ~ raises
             THEN /\ whatsapp_tasks' = AssignAfter(whatsapp_tasks, last.problem_id, last.added)
                  /\ UNCHANGED <<whatsapp_processed_messages, task_seq>>
                  /\ last' = [last EXCEPT !.op = "scan"]
          ELSE IF ScanPath = "live"
             THEN LET db2 == save_all(Db, fallback_tasks(clock))
                  IN /\ whatsapp_tasks' =
                           AssignAfter(db2.tasks, last.problem_id, db2.seq - task_seq)
                     /\ whatsapp_processed_messages' = db2.processed
                     /\ task_seq' = db2.seq
                     /\ last' = [ last EXCEPT
                                    !.op = "scan",
                                    !.added = last.added + (db2.seq - task_seq),
                                    !.new_ids = last.new_ids \cup ((task_seq + 1)..db2.seq) ]
          ELSE /\ UNCHANGED dbVars
               /\ last' = [last EXCEPT !.op = "scan"]
    /\ UNCHANGED <<notCmdVars, action_steps>>

command_complete_whatsapp_task ==
    /\ MoreCommands
    /\ \E task_id \in TaskIdArgs :
          /\ last' = Command("complete", task_id, "none")
          /\ whatsapp_tasks' = IF TaskExists(whatsapp_tasks, task_id)
                                  THEN SetStatus(whatsapp_tasks, task_id, "completed")
                                  ELSE whatsapp_tasks
    /\ UNCHANGED <<whatsapp_processed_messages, task_seq, notCmdVars, action_steps>>

command_pending_whatsapp_task ==
    /\ MoreCommands
    /\ \E task_id \in TaskIdArgs :
          /\ last' = Command("pending", task_id, "none")
          /\ whatsapp_tasks' = IF TaskExists(whatsapp_tasks, task_id)
                                  THEN SetStatus(whatsapp_tasks, task_id, "pending")
                                  ELSE whatsapp_tasks
    /\ UNCHANGED <<whatsapp_processed_messages, task_seq, notCmdVars, action_steps>>

command_assign_whatsapp_task ==
    /\ MoreCommands
    /\ \E task_id \in TaskIdArgs, problem_id \in ProblemArgs :
          /\ last' = Command("assign", task_id, "none")
          /\ whatsapp_tasks' =
                IF TaskExists(whatsapp_tasks, task_id) /\ problem_id \in Problems
                   THEN SetProblem(whatsapp_tasks, task_id, problem_id)
                   ELSE whatsapp_tasks
    /\ UNCHANGED <<whatsapp_processed_messages, task_seq, notCmdVars, action_steps>>

\* command_convert_whatsapp_task: the action_steps row it inserts is
\* (problem_id, description); from_task records the task it came from.
command_convert_whatsapp_task ==
    /\ MoreCommands
    /\ Len(action_steps) < MaxSteps
    /\ \E task_id \in TaskIdArgs :
          /\ last' = Command("convert", task_id, "none")
          /\ IF TaskExists(whatsapp_tasks, task_id)
                /\ TaskWithId(whatsapp_tasks, task_id).problem_id # NULL
                THEN /\ action_steps' = Append(action_steps,
                           [ problem_id  |-> TaskWithId(whatsapp_tasks, task_id).problem_id,
                             description |-> TaskWithId(whatsapp_tasks, task_id).task_description,
                             from_task   |-> task_id ])
                     /\ whatsapp_tasks' = SetStatus(whatsapp_tasks, task_id, "converted")
                ELSE UNCHANGED <<action_steps, whatsapp_tasks>>
    /\ UNCHANGED <<whatsapp_processed_messages, task_seq, notCmdVars>>

\* command_delete_whatsapp_task; `confirm` is the user's answer.
command_delete_whatsapp_task ==
    /\ MoreCommands
    /\ \E task_id \in TaskIdArgs, confirm \in BOOLEAN :
          /\ last' = Command("delete", task_id, "none")
          /\ IF TaskExists(whatsapp_tasks, task_id) /\ confirm
                THEN LET db2 == Delete(whatsapp_tasks, whatsapp_processed_messages, task_id)
                     IN /\ whatsapp_tasks' = db2.tasks
                        /\ whatsapp_processed_messages' = db2.processed
                ELSE UNCHANGED <<whatsapp_tasks, whatsapp_processed_messages>>
    /\ UNCHANGED <<task_seq, notCmdVars, action_steps>>

command_update_whatsapp_task_priority ==
    /\ MoreCommands
    /\ \E task_id \in TaskIdArgs, priority \in PriorityArgs :
          /\ last' = Command("priority", task_id, priority)
          /\ whatsapp_tasks' =
                IF ValidPriority(priority) /\ TaskExists(whatsapp_tasks, task_id)
                   THEN SetPriority(whatsapp_tasks, task_id, str_lower(priority))
                   ELSE whatsapp_tasks
    /\ UNCHANGED <<whatsapp_processed_messages, task_seq, notCmdVars, action_steps>>

InitCommands ==
    /\ InitDb /\ InitConn /\ InitExt /\ InitStep /\ InitRest
    /\ \E ue \in BOOLEAN :
          config = [DefaultConfig EXCEPT !.whatsapp_web_enabled = TRUE, !.use_export = ue]
    /\ thr = [t \in Threads |-> IdleThread]
    /\ nscans = 0
    /\ user_disabled = FALSE
    /\ stale_start = FALSE
    /\ hash_seed = 0
    /\ clock = 0
    /\ min_words = 2
    /\ reached = {} /\ candidates = {} /\ idlog = {} /\ scanned = {}
    /\ runs = 0

NextCommands ==
    \/ scan_store
    \/ scanner_thread_scan
    \/ scan_finish
    \/ command_complete_whatsapp_task
    \/ command_pending_whatsapp_task
    \/ command_assign_whatsapp_task
    \/ command_convert_whatsapp_task
    \/ command_delete_whatsapp_task
    \/ command_update_whatsapp_task_priority

SpecCommands == InitCommands /\ [][NextCommands]_vars

-----------------------------------------------------------------------------
(* wait_for_chat_list: the alternatives it waits for, one after the other *)

\* What a step of wait_for_chat_list, of the scanner thread's clock or of
\* the reminder scheduler leaves alone.
notSideVars == <<dbVars, connVars, runVars, extVars, sessVars, stepVars, cmdVars>>

\* The timeouts wait_for_chat_list is called with.
Timeouts == {20, 30, 120}

\* The alternatives: the CSS selector, the class name, then the XPaths of
\* WHATSAPP_SELECTORS['chat_list'].
ChatListAlternatives == 2 + Alternatives("chat_list")

\* The timeout of the WebDriverWait of alternative k.
WaitLimit(timeout, k) ==
    IF k <= 2 THEN timeout ELSE timeout \div Alternatives("chat_list")

wait_for_chat_list_call ==
    /\ wait.pc = "idle"
    /\ \E timeout \in Timeouts :
          wait' = [IdleWait EXCEPT !.pc = "try", !.timeout = timeout, !.k = 1]
    /\ UNCHANGED <<notSideVars, scanner, reminder>>

\* WebDriverWait(driver, limit).until(...) for alternative k: the element
\* is present after d seconds; or TimeoutException after `limit` seconds,
\* and the next alternative is tried; or another exception after d seconds,
\* which the outer handler catches.
wait_for_chat_list_try ==
    /\ wait.pc = "try"
    /\ \E out \in {"present", "TimeoutException", "Exception"}, d \in 0..MaxDelay :
          LET limit == WaitLimit(wait.timeout, wait.k)
          IN wait' =
               IF out = "present"
                  THEN [wait EXCEPT !.pc = "done", !.waited = @ + Min(d, limit),
                                    !.matched = TRUE, !.ret = "True"]
               ELSE IF out = "Exception"
                  THEN [wait EXCEPT !.pc = "done", !.waited = @ + Min(d, limit),
                                    !.ret = "False"]
               ELSE IF wait.k < ChatListAlternatives
                  THEN [wait EXCEPT !.k = @ + 1, !.waited = @ + limit]
               ELSE [wait EXCEPT !.pc = "done", !.waited = @ + limit, !.ret = "False"]
    /\ UNCHANGED <<notSideVars, scanner, reminder>>

InitWait ==
    /\ InitDb /\ InitConn /\ InitRun /\ InitExt /\ InitSess /\ InitStep /\ InitRest

NextWait ==
    \/ wait_for_chat_list_call
    \/ wait_for_chat_list_try

SpecWait == InitWait /\ [][NextWait]_vars

-----------------------------------------------------------------------------
(* scanner_thread against the clock: its cycles, its sleeps and the        *)
(* exceptions of a cycle.  Time passes while the thread sleeps, in steps   *)
(* of 100 seconds.                                                         *)

\* config["scan_interval"]: five minutes or the default hour.
ScanIntervals == {300, 3600}

\* `except Exception`: the message is printed and the thread sleeps 300 s.
AfterExceptionRetry(rec) == [rec EXCEPT !.pc = "top"]
AfterException(rec) == [rec EXCEPT !.pc = "backoff", !.wake = rec.now + 300]

\* The exception of this cycle, for the record.
Raised(rec) == [rec EXCEPT !.raised = TRUE, !.raised_at = rec.now]

\* The top of a cycle: load_whatsapp_config() returns or raises; with a
\* flag off the loop breaks.
scanner_thread_load ==
    /\ scanner.pc = "top"
    /\ scanner.cycles < MaxCycles
    /\ \E raises \in BOOLEAN :
          LET rec == [scanner EXCEPT !.cycles = @ + 1, !.raised = FALSE]
          IN scanner' =
               IF raises THEN AfterException(Raised(rec))
               ELSE IF ~ config.auto_scan \/ ~ config.whatsapp_web_enabled
                  THEN [rec EXCEPT !.pc = "terminated"]
               ELSE [rec EXCEPT !.pc = "scan"]
    /\ UNCHANGED <<notSideVars, wait, reminder>>

\* scan_whatsapp_messages() returns, and the thread sleeps scan_interval;
\* or it raises.
scanner_thread_run ==
    /\ scanner.pc = "scan"
    /\ \E raises \in BOOLEAN, scan_interval \in ScanIntervals :
          scanner' =
             IF raises THEN AfterException(Raised(scanner))
             ELSE [scanner EXCEPT !.pc = "sleep", !.wake = scanner.now + scan_interval]
    /\ UNCHANGED <<notSideVars, wait, reminder>>

\* time.sleep is under way.
time_passes ==
    /\ scanner.pc \in {"sleep", "backoff"}
    /\ scanner.now < scanner.wake
    /\ scanner' = [scanner EXCEPT !.now = @ + 100]
    /\ UNCHANGED <<notSideVars, wait, reminder>>

\* time.sleep returns: the next cycle.
scanner_thread_wake ==
    /\ scanner.pc \in {"sleep", "backoff"}
    /\ scanner.now >= scanner.wake
    /\ scanner' = [scanner EXCEPT !.pc = "top"]
    /\ UNCHANGED <<notSideVars, wait, reminder>>

\* start_background_scanner found both flags on and started the thread.
InitScanner ==
    /\ InitDb /\ InitConn /\ InitRun /\ InitExt /\ InitStep /\ InitCmd
    /\ config = [DefaultConfig EXCEPT !.whatsapp_web_enabled = TRUE, !.auto_scan = TRUE]
    /\ thr = [t \in Threads |-> IdleThread]
    /\ nscans = 0
    /\ user_disabled = FALSE
    /\ stale_start = FALSE
    /\ wait = IdleWait
    /\ reminder = NewReminderManager
    /\ scanner = [NoScanner EXCEPT !.pc = "top"]

NextScanner ==
    \/ scanner_thread_load
    \/ scanner_thread_run
    \/ time_passes
    \/ scanner_thread_wake
    \/ configure_whatsapp_off

SpecScanner == InitScanner /\ [][NextScanner]_vars

-----------------------------------------------------------------------------
(* ReminderManager (src/reminders.py): start_scheduler, stop_scheduler and *)
(* the threads running run_scheduler.                                      *)

\* start_scheduler: nothing if running; else running is set and a thread
\* is started on run_scheduler.
start_scheduler ==
    /\ IF reminder.running
          THEN UNCHANGED reminder
          ELSE /\ Len(reminder.threads) < MaxThreads
               /\ reminder' = [ running |-> TRUE,
                                scheduler_thread |-> Len(reminder.threads) + 1,
                                threads |-> Append(reminder.threads, "reschedule") ]
    /\ UNCHANGED <<notSideVars, wait, scanner>>

\* stop_scheduler: running is cleared; join(timeout=1) returns whether the
\* thread has ended or not, and scheduler_thread is set to None.
stop_scheduler ==
    /\ reminder' = [reminder EXCEPT !.running = FALSE, !.scheduler_thread = 0]
    /\ UNCHANGED <<notSideVars, wait, scanner>>

\* run_scheduler in thread t: self.reschedule_reminders()
run_scheduler_reschedule(t) ==
    /\ reminder.threads[t] = "reschedule"
    /\ reminder' = [reminder EXCEPT !.threads[t] = "while"]
    /\ UNCHANGED <<notSideVars, wait, scanner>>

\* `while self.running:`
run_scheduler_while(t) ==
    /\ reminder.threads[t] = "while"
    /\ reminder' = [reminder EXCEPT
                      !.threads[t] = IF reminder.running THEN "run_pending" ELSE "ended"]
    /\ UNCHANGED <<notSideVars, wait, scanner>>

\* schedule.run_pending()
run_scheduler_run_pending(t) ==
    /\ reminder.threads[t] = "run_pending"
    /\ reminder' = [reminder EXCEPT !.threads[t] = "sleep"]
    /\ UNCHANGED <<notSideVars, wait, scanner>>

\* time.sleep(30)
run_scheduler_sleep(t) ==
    /\ reminder.threads[t] = "sleep"
    /\ reminder' = [reminder EXCEPT !.threads[t] = "while"]
    /\ UNCHANGED <<notSideVars, wait, scanner>>

InitReminder ==
    /\ InitDb /\ InitConn /\ InitRun /\ InitExt /\ InitSess /\ InitStep /\ InitRest

NextReminder ==
    \/ start_scheduler
    \/ stop_scheduler
    \/ \E t \in 1..Len(reminder.threads) : run_scheduler_reschedule(t)
    \/ \E t \in 1..Len(reminder.threads) : run_scheduler_while(t)
    \/ \E t \in 1..Len(reminder.threads) : run_scheduler_run_pending(t)
    \/ \E t \in 1..Len(reminder.threads) : run_scheduler_sleep(t)

SpecReminder == InitReminder /\ [][NextReminder]_vars

-----------------------------------------------------------------------------
(* Claims about the gate *)

RowsWith(mid) == {k \in 1..Len(whatsapp_tasks) : whatsapp_tasks[k].message_id = mid}
ProcessedWith(mid) == {r \in whatsapp_processed_messages : r.message_id = mid}
CallMid(j) == calls[j].arg[1].message_id

\* C1: with the calls of save_tasks_to_db run one after another, the first
\* call for a message_id returns 1 and every later call for it returns 0,
\* and after any of them the message_id has exactly one whatsapp_tasks row
\* and exactly one whatsapp_processed_messages row.
C1_IdempotentAdmission ==
    \A j \in 1..Len(calls) :
        /\ calls[j].ret = IF \E i \in 1..(j-1) : CallMid(i) = CallMid(j) THEN 0 ELSE 1
        /\ Cardinality(RowsWith(CallMid(j))) = 1
        /\ Cardinality(ProcessedWith(CallMid(j))) = 1

\* Two finished calls with the same message_id: Stored, then Skipped.
C1_Witness ==
    \E i, j \in 1..Len(calls) :
        /\ i < j
        /\ CallMid(i) = CallMid(j)
        /\ calls[i].ret = 1
        /\ calls[j].ret = 0

\* C2: in every interleaving of two save_tasks_to_db calls on separate
\* connections, the committed whatsapp_tasks table never holds two rows with
\* the same message_id, and at most one call per message_id commits a row.
C2_AtomicAdmission ==
    /\ \A k, l \in 1..Len(whatsapp_tasks) :
          whatsapp_tasks[k].message_id = whatsapp_tasks[l].message_id => k = l
    /\ \A i, j \in 1..Len(calls) :
          (CallMid(i) = CallMid(j) /\ calls[i].ret = 1 /\ calls[j].ret = 1) => i = j

\* Both calls passed the check for the same message_id before either wrote;
\* one has committed its row and the other has inserted its task row after it.
C2_Witness ==
    \E c \in Conns :
        /\ conn[c].pc = "insert_processed"
        /\ Cardinality(RowsWith(Head(conn[c].todo).message_id)) = 1

-----------------------------------------------------------------------------
(* Claims about the scan runs *)

WordCount(text) == Len(split(text))

\* C6: in a live scan a message whose text is empty or has fewer than
\* min_words words is not given to extract_tasks_from_message and yields no
\* task candidate.
C6_MinWordsLive ==
    \A r \in reached \cup candidates :
        r.path = "live" => (r.text # <<>> /\ WordCount(r.text) >= r.min_words)

\* A live scan with min_words = 5 that read "ok" and a five-word request:
\* "ok" was dropped, the request reached the extraction.
C6_Witness ==
    /\ [path |-> "live", text |-> TextOk, min_words |-> 5] \in scanned \ reached
    /\ [path |-> "live", text |-> TextLong, min_words |-> 5] \in reached \cap candidates

\* C7: in an export-file scan a message with fewer than min_words words is
\* not given to extract_tasks_from_message and yields no task candidate.
C7_MinWordsExport ==
    \A r \in reached \cup candidates :
        r.path = "export" => WordCount(r.text) >= r.min_words

\* C9: the same conversation, sender, message text and task text give the
\* same message_id in every run, whatever process computed it.
C9_IdentifierStability ==
    \A a, b \in idlog :
        (/\ a.group_name = b.group_name
         /\ a.sender = b.sender
         /\ a.text = b.text
         /\ a.task = b.task) => a.message_id = b.message_id

\* C10: whatsapp_tasks never holds two rows with the same group, sender,
\* message text and task description, whatever runs stored them.
C10_NoSourceStoredTwice ==
    \A k, l \in 1..Len(whatsapp_tasks) :
        (/\ whatsapp_tasks[k].group_name = whatsapp_tasks[l].group_name
         /\ whatsapp_tasks[k].sender = whatsapp_tasks[l].sender
         /\ whatsapp_tasks[k].message = whatsapp_tasks[l].message
         /\ whatsapp_tasks[k].task_description = whatsapp_tasks[l].task_description)
        => k = l

-----------------------------------------------------------------------------
(* Claims about extract_messages *)

\* The last n elements of s, for n <= Len(s).
Tail_n(s, n) == [j \in 1..n |-> s[Len(s) - n + j]]

\* C8: for every N >= 0, N = 0 included, extract_messages returns at most N
\* elements, and when more than N were found it returns exactly the last N
\* in page order.
C8_TailTruncation ==
    extracted =>
        /\ Len(messages) <= max_messages
        /\ Len(FoundElements(page)) > max_messages
              => messages = Tail_n(FoundElements(page), max_messages)

-----------------------------------------------------------------------------
(* Claims about browser sessions and the background scanner *)

\* C3: whenever scan_whatsapp_messages or test_whatsapp_connection has
\* returned or raised after initialize_webdriver gave it a driver,
\* driver.quit() has been invoked on that driver.
C3_BrowserTeardown ==
    \A t \in Threads :
       (thr[t].pc \in {"done", "raised"} /\ thr[t].drv # "none") => thr[t].quits >= 1

\* C4: the background scanner and a foreground scan_whatsapp_messages are
\* never both between initialize_webdriver and driver.quit at the same time.
C4_SingleWriter ==
    ~ ( /\ thr["bg"].drv = "live" /\ thr["bg"].fn = "scan"
        /\ thr["fg"].drv = "live" /\ thr["fg"].fn = "scan"
        /\ thr["fg"].pc \in Inside /\ thr["bg"].pc \in Inside )

\* C5: once the user has written auto_scan = false or whatsapp_web_enabled =
\* false to the config, the scanner thread starts no further scan.
C5_ScannerStops == ~ stale_start

-----------------------------------------------------------------------------
(* Claims about selector resolution *)

\* The alternatives other than n fail as "not found" or "timeout".
OnlyMatch(n) ==
    /\ sel.page[n] = "match"
    /\ \A k \in DOMAIN sel.page :
          k # n => sel.page[k] \in {"TimeoutException", "NoSuchElementException"}

\* C16: the alternatives of a key are evaluated strictly in list order, and
\* when only the N-th alternative matches (the others fail as not found or
\* timeout) the resolution ends with the N-th found, having evaluated
\* exactly the alternatives 1..N.
C16_SelectorFallbackOrder ==
    sel.key # "none" =>
        /\ \A k \in 1..Len(sel.evaluated) : sel.evaluated[k] = k
        /\ sel.found # 0 => (sel.done /\ sel.found = Len(sel.evaluated))
        /\ \A n \in DOMAIN sel.page :
              (sel.done /\ OnlyMatch(n)) => (sel.found = n /\ Len(sel.evaluated) = n)

\* Only the last back_button alternative matches: found after three
\* swallowed failures.
C16_Witness ==
    /\ sel.key = "back_button"
    /\ sel.done
    /\ OnlyMatch(4)
    /\ sel.found = 4

-----------------------------------------------------------------------------
(* Claims about one live scan *)

\* The conversations the scan attempted, in the order of the attempts.
Attempts == SelectSeq(oplog, LAMBDA e : e.op = "search")

\* The operations issued on the driver.
IsDriverOp(e) == e.op \notin {"persist", "fallback"}
\* The operations that search, open or read a conversation.
IsNavOp(e) == e.op \in {"search", "click", "extract", "back", "reload"}

\* C11: when no element matches the conversation name (no contact_by_name
\* alternative, no element containing the name), click_on_contact_or_group
\* opens no conversation and returns False, and the scan extracts no
\* messages under that name.
C11_ConversationNotFound ==
    \A k \in 1..Len(oplog) :
        (oplog[k].op = "click" /\ oplog[k].arg # "named") =>
            /\ oplog[k].arg = "none"
            /\ ~ \E j \in 1..Len(oplog) : oplog[j].op = "extract" /\ oplog[j].g = oplog[k].g

\* C12: in a scan that reached the authenticated state every monitored
\* conversation is attempted exactly once and in list order; no failure
\* inside a conversation's step ends the loop before the last conversation.
C12_SkipAndContinue ==
    /\ \A k \in 1..Len(Attempts) : Attempts[k].g = k
    /\ Len(Attempts) <= NumGroups
    /\ (live.auth = "yes" /\ live.pc # "group") => Len(Attempts) = NumGroups

\* The first conversation's step raised and the last conversation was
\* still searched for, found and read.
C12_Witness ==
    /\ \E k \in 1..Len(oplog) : oplog[k] = Op("search", 1, "raised")
    /\ \E k \in 1..Len(oplog) : oplog[k] = Op("extract", NumGroups, "messages")

C14_PersistenceFailureSurfaced ==
    live.save_failed =>
        /\ live.ret # "True"
        /\ \A k \in 1..Len(whatsapp_tasks) :
              whatsapp_tasks[k].group_name \notin {FallbackGroup, ProjectUpdates}
        /\ Len(whatsapp_tasks) >= live.added

\* C19: the tasks of conversation gi are persisted before the search for a
\* later conversation begins, and the browser session is closed only after
\* the last persist.
C19_PersistenceOrder ==
    \A j, k \in 1..Len(oplog) :
        /\ (oplog[k].op = "persist" /\ oplog[j].op = "search" /\ oplog[j].g > oplog[k].g)
              => k < j
        /\ (oplog[k].op = "persist" /\ oplog[j].op = "quit") => k < j

\* C20: conversations are searched, opened and read only after the
\* chat-list marker was found and before driver.quit(), and after
\* driver.quit() no operation, a second quit included, is issued on the
\* driver.
C20_SessionLifecycle ==
    \A k \in 1..Len(oplog) :
        /\ IsNavOp(oplog[k]) =>
              /\ \E j \in 1..(k-1) : oplog[j] = Op("wait_for_chat_list", 0, "found")
              /\ ~ \E j \in 1..(k-1) : oplog[j].op = "quit"
        /\ (IsDriverOp(oplog[k]) /\ oplog[k].op # "launch") =>
              /\ \E j \in 1..(k-1) : oplog[j].op = "launch"
              /\ ~ \E j \in 1..(k-1) : oplog[j].op = "quit"

-----------------------------------------------------------------------------
(* Claims about extract_tasks_from_message *)

\* The API call failed: a non-200 status, or a network or parse exception.
ApiFailed(e) == e.event.kind \in {"non_200", "network_exception", "parse_exception"}

\* The API is unavailable: no key, or the call failed.
ApiUnavailable(e) == e.event.kind = "no_key" \/ ApiFailed(e)

\* C15: when the API call returns a non-200 status or raises a network or
\* parse exception, nothing is raised and extract_tasks_from_message returns
\* the rule-based extraction of the message.
C15_LlmFailureNotFatal ==
    \A e \in extlog :
        ApiFailed(e) => (~ e.raised /\ e.tasks = rule_based_tasks(e.text))

\* The POST raised for "please send report" and the rules gave its task.
C15_Witness ==
    \E e \in extlog :
        /\ e.event.kind = "network_exception"
        /\ e.text = TextShort
        /\ e.tasks = <<TextShort>>

\* A single-line message of at least three words that contains "please" or
\* "can you" and has no marker prefix.
PlainRequest(text) ==
    /\ \A k \in 1..Len(text) : text[k] # NL
    /\ Len(split(text)) >= 3
    /\ (ContainsCanYou(text) \/ \E k \in 1..Len(text) : text[k] = PLEASE)
    /\ ~ StartsWithMarker(text)

\* C17: with no API key, such a message yields exactly one task, whose
\* description is the message; its message id has a row in whatsapp_tasks,
\* and the rows of the message carry priority 'medium' and status 'pending'.
C17_FallbackScenario ==
    \A e \in extlog :
        (e.event.kind = "no_key" /\ PlainRequest(e.text)) =>
            /\ e.tasks = <<e.text>>
            /\ \E k \in 1..Len(whatsapp_tasks) :
                  whatsapp_tasks[k].message_id =
                     task_dict(e.seed, NameA, NameB, e.text, e.text).message_id
            /\ \A k \in 1..Len(whatsapp_tasks) :
                  whatsapp_tasks[k].message = e.text =>
                     /\ whatsapp_tasks[k].priority = "medium"
                     /\ whatsapp_tasks[k].status = "pending"

\* "can you send" without a key: one task, stored as medium and pending.
C17_Witness ==
    /\ \E e \in extlog :
          e.event.kind = "no_key" /\ e.text = TextCanYou /\ e.tasks = <<TextCanYou>>
    /\ \E k \in 1..Len(whatsapp_tasks) :
          /\ whatsapp_tasks[k].task_description = TextCanYou
          /\ whatsapp_tasks[k].priority = "medium"
          /\ whatsapp_tasks[k].status = "pending"

C21_NoTaskSentinel ==
    \A e \in extlog :
        (e.event.kind = "status_200" /\ e.event.body = <<NO_TASK>>) => e.tasks = <<>>

\* C22: with the API unavailable, a message yields at most one task, its
\* first matching line.
C22_OneTaskPerMessage ==
    \A e \in extlog :
        ApiUnavailable(e) =>
            /\ Len(e.tasks) <= 1
            /\ e.tasks # <<>> => e.tasks = <<Head(rule_based_tasks(e.text))>>

-----------------------------------------------------------------------------
(* Claims about the task commands *)

\* C23: with scans and task commands run one at a time, each message_id is
\* in at most one whatsapp_tasks row and every row's message_id has a record
\* in whatsapp_processed_messages.
C23_GateInvariant ==
    /\ \A k, l \in 1..Len(whatsapp_tasks) :
          whatsapp_tasks[k].message_id = whatsapp_tasks[l].message_id => k = l
    /\ \A k \in 1..Len(whatsapp_tasks) :
          AlreadyProcessed(whatsapp_processed_messages, whatsapp_tasks[k].message_id)

\* A scan offered the gate messages whose tasks are all stored already, and
\* it added nothing.
C23_Witness ==
    /\ last.op = "scan" /\ last.added = 0 /\ last.offered # {}
    /\ \A mid \in last.offered :
          \E k \in 1..Len(whatsapp_tasks) : whatsapp_tasks[k].message_id = mid

\* C24: no step of a scan or a command removes or changes a record of
\* whatsapp_processed_messages, and no step stores a task for a message_id
\* that had a record; so a deleted task is not re-created.
C24_AppendOnlyProcessed ==
    [][ /\ whatsapp_processed_messages \subseteq whatsapp_processed_messages'
        /\ \A k \in 1..Len(whatsapp_tasks') :
              ~ TaskExists(whatsapp_tasks, whatsapp_tasks'[k].id) =>
                 ~ AlreadyProcessed(whatsapp_processed_messages,
                                    whatsapp_tasks'[k].message_id) ]_vars

\* A task was deleted, a later scan offered its message again and stored
\* nothing: the record is there and the row is not.
C24_Witness ==
    /\ last.op = "scan" /\ last.added = 0
    /\ \E mid \in last.offered :
          /\ AlreadyProcessed(whatsapp_processed_messages, mid)
          /\ ~ \E k \in 1..Len(whatsapp_tasks) : whatsapp_tasks[k].message_id = mid

\* C25: every row has a status among pending, completed, converted and a
\* priority among high, medium, low; the rows a scan stored are pending and
\* medium when it returns; a priority command whose argument, in lower case,
\* is none of the three priorities changes no row.
C25_StatusPriorityDomains ==
    /\ [] /\ \A k \in 1..Len(whatsapp_tasks) :
               /\ whatsapp_tasks[k].status \in {"pending", "completed", "converted"}
               /\ whatsapp_tasks[k].priority \in {"high", "medium", "low"}
          /\ last.op = "scan" =>
                \A k \in 1..Len(whatsapp_tasks) :
                    whatsapp_tasks[k].id \in last.new_ids =>
                       /\ whatsapp_tasks[k].status = "pending"
                       /\ whatsapp_tasks[k].priority = "medium"
    /\ [][ (last'.op = "priority" /\ ~ ValidPriority(last'.priority))
              => whatsapp_tasks' = whatsapp_tasks ]_vars

\* Task 1 got priority high by the argument "HIGH", then the argument
\* "urgent" was given for it.
C25_Witness ==
    /\ last.op = "priority" /\ last.priority = "urgent" /\ last.task_id = 1
    /\ \E k \in 1..Len(whatsapp_tasks) :
          whatsapp_tasks[k].id = 1 /\ whatsapp_tasks[k].priority = "high"

\* C28: when a scan called with the id of an existing problem has stored new
\* tasks and is over, the rows it stored, and no others, got that problem;
\* with the id of no problem no row got a problem.
C28_AssignmentAfterScan ==
    [][ (last.op = "scan_stored" /\ last'.op = "scan" /\ last'.added > 0) =>
          \A k \in 1..Len(whatsapp_tasks') :
             LET row == whatsapp_tasks'[k]
             IN IF row.id \in last'.new_ids /\ last'.problem_id \in Problems
                   THEN row.problem_id = last'.problem_id
                   ELSE /\ TaskExists(whatsapp_tasks, row.id)
                        /\ row.problem_id = TaskWithId(whatsapp_tasks, row.id).problem_id ]_vars

\* C29: each whatsapp_tasks row has given rise to at most one action_steps
\* row.
C29_ConversionAtMostOnce ==
    \A k, l \in 1..Len(action_steps) :
        action_steps[k].from_task = action_steps[l].from_task => k = l

-----------------------------------------------------------------------------
(* Claims about wait_for_chat_list *)

\* C26: a call of wait_for_chat_list(driver, timeout) that has returned has
\* waited at most timeout seconds over all its alternatives, and it returned
\* True exactly when an alternative matched.
C26_BoundedWait ==
    wait.pc = "done" =>
        /\ wait.waited <= wait.timeout
        /\ (wait.ret = "True") <=> wait.matched

-----------------------------------------------------------------------------
(* Claims about the scanner thread's back-off *)

\* C27: after a cycle of the scanner thread raised, the thread is not
\* terminated and is asleep until 300 seconds have passed; only then is it
\* at the top of the loop, where the config is read again.
C27_ScannerBackOff ==
    scanner.raised =>
        \/ scanner.pc = "backoff"
        \/ scanner.pc = "top" /\ scanner.now >= scanner.raised_at + 300

\* A scan raised in the second hour, and the thread is back at the top of
\* its loop after the back-off.
C27_Witness ==
    /\ scanner.raised /\ scanner.pc = "top"
    /\ scanner.raised_at >= 3600
    /\ scanner.now = scanner.raised_at + 300

-----------------------------------------------------------------------------
(* Claims about the reminder scheduler *)

\* C30: at any time at most one thread is running schedule.run_pending().
C30_SingleSchedulerLoop ==
    Cardinality({ t \in 1..Len(reminder.threads) : reminder.threads[t] = "run_pending" }) <= 1

====
